---- MODULE Spec2Model ----
(***************************************************************************)
(* A model of the maze-solving engine of FloodFillMMS: the wall model, the *)
(* movement translator, the flood field and the FloodFill, AStar and DFS   *)
(* explorers (src/utils/floodfill.py, astar.py, dfs.py), driven against a  *)
(* simulated movement/sensing capability (the Drive interface of           *)
(* src/utils/__init__.py, with the crash response of src/utils/api.py).    *)
(*                                                                         *)
(* A cell is the pair <<a, b>> that the code writes (a, b); the code adds  *)
(* mapping[d] to it, so EAST is b+1 and SOUTH is a+1.  An engine operation *)
(* is an operator on an engine record e, which carries the tracked pose,   *)
(* the wall model, the simulated robot and the exception in flight:        *)
(* e.exc = "none" until something raises, and every operation is the       *)
(* identity once e.exc is set (the exception propagates to the caller).    *)
(***************************************************************************)
EXTENDS Integers, Sequences, FiniteSets, TLC

\* ------------------------------------------------------------ bounds
\* The maze the mouse reports (maze_width, maze_height).
W == 4
H == 4
\* Explored mazes have at most MaxWalls interior walls.
MaxWalls == 2
\* The mazes of the single-move specification have at most MoveWalls walls.
MoveWalls == 1
\* Inputs of cut_redundant_steps have at most MaxLen cells.
MaxLen == 5
\* Exploration passes (run, reset, run, ...) per engine instance.
MaxPasses == 3
\* A flood that would raise a field value above MaxField is cut off there.
MaxField == 17
\* The larger maze a mouse may report, explored by FloodFill with at most
\* LargeWalls walls, all in the quadrant of the start cell.
WLarge == 6
HLarge == 6
LargeWalls == 3

\* ------------------------------------------------------------ grid types
VARIABLES
  self_w,       \* self.w: the maze width the mouse reports
  self_h        \* self.h: the maze height the mouse reports

\* The mouse reports a maze of w by h cells.
Reports(w, h) == self_w = w /\ self_h = h

EAST == 1
SOUTH == 2
WEST == 3
NORTH == 4
DIRECTIONS == {EAST, SOUTH, WEST, NORTH}

mapping(d) ==
  CASE d = EAST -> <<0, 1>>
    [] d = SOUTH -> <<1, 0>>
    [] d = WEST -> <<0, -1>>
    [] d = NORTH -> <<-1, 0>>

Cells == (0 .. self_w - 1) \X (0 .. self_h - 1)

InBounds(c) == 0 <= c[1] /\ c[1] < self_w /\ 0 <= c[2] /\ c[2] < self_h

Add(c, v) == <<c[1] + v[1], c[2] + v[2]>>

Sub(c, d) == <<c[1] - d[1], c[2] - d[2]>>

Origin == <<0, 0>>

InSeq(x, s) == \E k \in 1 .. Len(s) : s[k] = x

Reverse(s) == [k \in 1 .. Len(s) |-> s[Len(s) + 1 - k]]

\* The scan of neighbors(): i, j in range(-1, 2), keeping the in-bounds
\* cells with exactly one of i, j non-zero.
neighbors(cell) ==
  SelectSeq(<<Add(cell, <<-1, 0>>), Add(cell, <<0, -1>>),
              Add(cell, <<0, 1>>), Add(cell, <<1, 0>>)>>, InBounds)

Adjacent(a, b) == \E d \in DIRECTIONS : b = Add(a, mapping(d))

\* ------------------------------------------------------------ the mazes
\* A wall of the physical maze is the unordered pair of cells it separates.
Edges == {{a, b} : a \in Cells, b \in Cells} \ {{a} : a \in Cells}

InteriorEdges == {e \in Edges : \E a \in e : \E b \in e : Adjacent(a, b)}

RECURSIVE MazesUpTo(_)
MazesUpTo(k) ==
  IF k = 0 THEN {{}}
  ELSE LET P == MazesUpTo(k - 1)
       IN P \cup {p \cup {w} : p \in P, w \in InteriorEdges}

\* What stands in direction d of cell c: the boundary or a wall of the maze.
PhysWall(m, c, d) ==
  LET n == Add(c, mapping(d)) IN ~InBounds(n) \/ {c, n} \in m

RECURSIVE ReachFrom(_, _)
ReachFrom(m, S) ==
  LET T == S \cup {n \in Cells : \E c \in S : Adjacent(c, n) /\ {c, n} \notin m}
  IN IF T = S THEN S ELSE ReachFrom(m, T)

\* destination: the product of the two center ranges.
destination ==
  [k \in 1 .. 4 |-> <<(self_w \div 2) - 1 + ((k - 1) \div 2),
                      (self_h \div 2) - 1 + ((k - 1) % 2)>>]

DestSet == {destination[k] : k \in 1 .. Len(destination)}

\* ------------------------------------------------------------ the capability
\* The simulated Drive: e.maze is the physical maze, e.pos and e.face the
\* robot's physical pose, e.cmds the commands received so far, with the
\* entry "crash" for a crash response.  With e.truthful a wall query
\* answers what stands there; without it the sensors are stuck at
\* "no wall".
turn_left(e) ==
  IF e.exc # "none" THEN e
  ELSE [e EXCEPT !.cmds = Append(@, "turnLeft"),
                 !.face = IF @ > 1 THEN @ - 1 ELSE 4]

turn_right(e) ==
  IF e.exc # "none" THEN e
  ELSE [e EXCEPT !.cmds = Append(@, "turnRight"),
                 !.face = IF @ < 4 THEN @ + 1 ELSE 1]

\* A move_forward that swallows the crash response.
move_forward_IgnoreCrash(e) ==
  IF e.exc # "none" THEN e
  ELSE IF PhysWall(e.maze, e.pos, e.face)
       THEN [e EXCEPT !.cmds = @ \o <<"moveForward", "crash">>]
       ELSE [e EXCEPT !.cmds = Append(@, "moveForward"),
                      !.pos = Add(@, mapping(e.face))]

\* Mouse.move_forward: the response "crash" raises MouseCrashedError.
move_forward(e) ==
  IF e.exc # "none" THEN e
  ELSE IF PhysWall(e.maze, e.pos, e.face)
       THEN [e EXCEPT !.cmds = @ \o <<"moveForward", "crash">>,
                      !.exc = "MouseCrashedError"]
       ELSE [e EXCEPT !.cmds = Append(@, "moveForward"),
                      !.pos = Add(@, mapping(e.face))]

LeftOf(d) == IF d > 1 THEN d - 1 ELSE 4

RightOf(d) == IF d < 4 THEN d + 1 ELSE 1

wall_left(e) == e.truthful /\ PhysWall(e.maze, e.pos, LeftOf(e.face))

wall_right(e) == e.truthful /\ PhysWall(e.maze, e.pos, RightOf(e.face))

wall_front(e) == e.truthful /\ PhysWall(e.maze, e.pos, e.face)

\* Mouse.ack_reset: the simulator puts the robot back at the start.
ack_reset(e) ==
  IF e.exc # "none" THEN e
  ELSE [e EXCEPT !.cmds = Append(@, "ackReset"), !.pos = Origin, !.face = EAST]

\* ------------------------------------------------------------ WallModel
\* The body of update_walls after the three queries: the blocked
\* directions in the iteration order of the set (the enum values
\* ascending), each appended when in bounds and not in the list the
\* cell had before.
RECURSIVE RecordWalls(_, _, _, _)
RecordWalls(e, ds, c_walls, d) ==
  IF d > 4 THEN e
  ELSE LET n == Add(e.current, mapping(d))
           add == d \in ds /\ ~InSeq(n, c_walls) /\ InBounds(n)
           e1 == IF add
                 THEN [e EXCEPT !.walls[e.current] = Append(@, n)]
                 ELSE e
       IN RecordWalls(e1, ds, c_walls, d + 1)

\* A sensing that records every wall from both sides.
SenseAndRecord_BothWays(e) ==
  LET lw == wall_left(e)
      rw == wall_right(e)
      fw == wall_front(e)
      ds == (IF lw THEN {LeftOf(e.orient)} ELSE {})
            \cup (IF fw THEN {e.orient} ELSE {})
            \cup (IF rw THEN {RightOf(e.orient)} ELSE {})
      e1 == [e EXCEPT !.cmds = @ \o <<"wallLeft", "wallRight", "wallFront">>]
      e2 == RecordWalls(e1, ds, e.walls[e.current], 1)
  IN [e2 EXCEPT !.walls =
        [c \in Cells |->
           IF InSeq(c, e2.walls[e.current]) /\ ~InSeq(e.current, e2.walls[c])
           THEN Append(e2.walls[c], e.current)
           ELSE e2.walls[c]]]

\* A sensing that appends without looking at the list the cell has.
SenseAndRecord_Unfiltered(e) ==
  LET lw == wall_left(e)
      rw == wall_right(e)
      fw == wall_front(e)
      ds == (IF lw THEN {LeftOf(e.orient)} ELSE {})
            \cup (IF fw THEN {e.orient} ELSE {})
            \cup (IF rw THEN {RightOf(e.orient)} ELSE {})
      e1 == [e EXCEPT !.cmds = @ \o <<"wallLeft", "wallRight", "wallFront">>]
  IN RecordWalls(e1, ds, <<>>, 1)

\* A sensing that never asks for the wall in front.
SenseAndRecord_NoFront(e) ==
  LET lw == wall_left(e)
      rw == wall_right(e)
      ds == (IF lw THEN {LeftOf(e.orient)} ELSE {})
            \cup (IF rw THEN {RightOf(e.orient)} ELSE {})
      e1 == [e EXCEPT !.cmds = @ \o <<"wallLeft", "wallRight">>]
  IN RecordWalls(e1, ds, e.walls[e.current], 1)

SenseAndRecord(e) ==
  LET lw == wall_left(e)
      rw == wall_right(e)
      fw == wall_front(e)
      ds == (IF lw THEN {LeftOf(e.orient)} ELSE {})
            \cup (IF fw THEN {e.orient} ELSE {})
            \cup (IF rw THEN {RightOf(e.orient)} ELSE {})
      e1 == [e EXCEPT !.cmds = @ \o <<"wallLeft", "wallRight", "wallFront">>]
  IN RecordWalls(e1, ds, e.walls[e.current], 1)

\* FloodFill.update_walls senses on every call.
FF_update_walls(e) == IF e.exc # "none" THEN e ELSE SenseAndRecord(e)

\* AStar.update_walls and DFS.update_walls return at once when the cell
\* is a key of the wall model (a key exists once a wall was appended).
\* An update_walls that never asks the sensors.
AStar_update_walls_Never(e) == e

AStar_update_walls(e) ==
  IF e.exc # "none" \/ e.walls[e.current] # <<>> THEN e ELSE SenseAndRecord(e)

DFS_update_walls(e) ==
  IF e.exc # "none" \/ e.walls[e.current] # <<>> THEN e ELSE SenseAndRecord(e)

\* ------------------------------------------------------------ MovementTranslator
\* [k for k, v in mapping.items() if v == diff]: the directions whose
\* vector is diff, in the order of the dict.
DirsOf(diff) == SelectSeq(<<EAST, SOUTH, WEST, NORTH>>, LAMBDA k : mapping(k) = diff)

\* ({orient_diff, orient_diff + 4} & set(range(1, 5))).pop()
TurnCheck(orient_diff) ==
  CHOOSE k \in {orient_diff, orient_diff + 4} \cap (1 .. 4) : TRUE

\* A match statement that turns once for the cell behind.
TurnAndGo_OneTurnBack(e, check) ==
  CASE check = NORTH -> move_forward(e)
    [] check = EAST -> move_forward(turn_right(e))
    [] check = WEST -> move_forward(turn_left(e))
    [] check = SOUTH -> move_forward(turn_left(e))

\* The match statement of move: the commands for each relative direction.
TurnAndGo(e, check) ==
  CASE check = NORTH -> move_forward(e)
    [] check = EAST -> move_forward(turn_right(e))
    [] check = WEST -> move_forward(turn_left(e))
    [] check = SOUTH -> move_forward(turn_left(turn_left(e)))

\* A body that returns quietly when no direction matches diff.
MoveBody_NoAdjacencyError(e, cell) ==
  LET diff == Sub(cell, e.current)
      ks == DirsOf(diff)
  IN IF ks = <<>> THEN e
     ELSE LET next_orient == ks[1]
              orient_diff == next_orient - e.orient
              e1 == TurnAndGo(e, TurnCheck(orient_diff))
          IN IF e1.exc # "none" THEN e1
             ELSE [e1 EXCEPT !.current = cell,
                             !.orient = e.orient + orient_diff]

\* The body shared by the three move methods, from diff to the commit of
\* the new cell and orientation.  An empty list of directions raises
\* IndexError at [0]; a crash leaves before the commit.
MoveBody(e, cell) ==
  LET diff == Sub(cell, e.current)
      ks == DirsOf(diff)
  IN IF ks = <<>> THEN [e EXCEPT !.exc = "IndexError"]
     ELSE LET next_orient == ks[1]
              orient_diff == next_orient - e.orient
              e1 == TurnAndGo(e, TurnCheck(orient_diff))
          IN IF e1.exc # "none" THEN e1
             ELSE [e1 EXCEPT !.current = cell,
                             !.orient = e.orient + orient_diff]

\* FloodFill.move has no guard before diff.
FF_move(e, cell) ==
  IF e.exc # "none" THEN e ELSE MoveBody([e EXCEPT !.arg = cell], cell)

\* AStar.move and DFS.move return at once for the current cell and for a
\* cell recorded as blocked from it.
AStar_move(e, cell) ==
  IF e.exc # "none" THEN e
  ELSE IF cell = e.current \/ InSeq(cell, e.walls[e.current])
       THEN [e EXCEPT !.arg = cell]
  ELSE MoveBody([e EXCEPT !.arg = cell], cell)

DFS_move(e, cell) ==
  IF e.exc # "none" THEN e
  ELSE IF cell = e.current \/ InSeq(cell, e.walls[e.current])
       THEN [e EXCEPT !.arg = cell]
  ELSE MoveBody([e EXCEPT !.arg = cell], cell)

\* ------------------------------------------------------------ PathOptimizer
\* steps[::-1].index(current), counted from 0.
RECURSIVE IndexFrom(_, _, _)
IndexFrom(s, x, k) ==
  IF s[k] = x THEN k - 1 ELSE IndexFrom(s, x, k + 1)

\* A loop whose slice starts one cell early, at the last occurrence.
RECURSIVE CutLoop_KeepLast(_, _)
CutLoop_KeepLast(steps, new_steps) ==
  IF steps = <<>> THEN new_steps
  ELSE LET current == Head(steps)
           rest == Tail(steps)
           from == Len(rest) - IndexFrom(Reverse(rest), current, 1) - 1
           kept == IF InSeq(current, rest)
                   THEN SubSeq(rest, from + 1, Len(rest))
                   ELSE rest
       IN CutLoop_KeepLast(kept, Append(new_steps, current))

\* A loop that also drops the cell after the last occurrence.
RECURSIVE CutLoop_DropsNext(_, _)
CutLoop_DropsNext(steps, new_steps) ==
  IF steps = <<>> THEN new_steps
  ELSE LET current == Head(steps)
           rest == Tail(steps)
           from == Len(rest) - IndexFrom(Reverse(rest), current, 1)
           kept == IF InSeq(current, rest)
                   THEN SubSeq(rest, from + 2, Len(rest))
                   ELSE rest
       IN CutLoop_DropsNext(kept, Append(new_steps, current))

\* A loop that cuts at the first later occurrence instead of the last.
RECURSIVE CutLoop_FirstOccurrence(_, _)
CutLoop_FirstOccurrence(steps, new_steps) ==
  IF steps = <<>> THEN new_steps
  ELSE LET current == Head(steps)
           rest == Tail(steps)
           from == IndexFrom(rest, current, 1) + 1
           kept == IF InSeq(current, rest)
                   THEN SubSeq(rest, from + 1, Len(rest))
                   ELSE rest
       IN CutLoop_FirstOccurrence(kept, Append(new_steps, current))

\* The while loop of cut_redundant_steps: pop(0), the slice after the last
\* occurrence when the cell occurs again, append.
RECURSIVE CutLoop(_, _)
CutLoop(steps, new_steps) ==
  IF steps = <<>> THEN new_steps
  ELSE LET current == Head(steps)
           rest == Tail(steps)
           from == Len(rest) - IndexFrom(Reverse(rest), current, 1)
           kept == IF InSeq(current, rest)
                   THEN SubSeq(rest, from + 1, Len(rest))
                   ELSE rest
       IN CutLoop(kept, Append(new_steps, current))

cut_redundant_steps(steps) == CutLoop(steps, <<>>)

\* ------------------------------------------------------------ FloodField
\* int(): truncation toward zero, of the half-integer n / 2.
TruncHalf(n) == IF n >= 0 THEN n \div 2 ELSE -((-n) \div 2)

MaxOf(a, b) == IF a >= b THEN a ELSE b

\* generate_flood_matrix without the cut and the mirroring of the rows and
\* of the matrix: the values as the two loops compute them.
generate_flood_matrix_Unmirrored(w, h) ==
  LET mid2 == w - 1
      Abs(n) == IF n >= 0 THEN n ELSE -n
      val(x, y) == TruncHalf(mid2 - Abs(2 * x - mid2)
                             + 2 * MaxOf(0, TruncHalf(2 * y - mid2)))
  IN [y \in 1 .. h |-> [x \in 1 .. w |-> val(x - 1, y - 1)]]

\* generate_flood_matrix, with midpoint = (w - 1) / 2 kept doubled: the
\* rows are mirrored around int(midpoint + 1) columns, then the matrix
\* around int(midpoint + 1) rows.  The result is a sequence of rows.
generate_flood_matrix(w, h) ==
  LET mid2 == w - 1
      half == TruncHalf(mid2 + 2)
      Abs(n) == IF n >= 0 THEN n ELSE -n
      val(x, y) == TruncHalf(mid2 - Abs(2 * x - mid2)
                             + 2 * MaxOf(0, TruncHalf(2 * y - mid2)))
      raw(y) == [x \in 1 .. w |-> val(x - 1, y)]
      cutrow(y) == Reverse(SubSeq(raw(y), 1, IF half <= w THEN half ELSE w))
      row(y) == cutrow(y) \o Reverse(cutrow(y))
      all == [y \in 1 .. h |-> row(y - 1)]
      top == SubSeq(Reverse(all), 1, IF half <= h THEN half ELSE h)
  IN top \o Reverse(top)

\* self.flood[a][b] for the cell (a, b) of the grid.
InitialFlood ==
  LET m == generate_flood_matrix(self_w, self_h)
  IN [c \in Cells |-> m[c[1] + 1][c[2] + 1]]

RECURSIVE MinOver(_, _, _)
MinOver(fl, cs, k) ==
  IF k = Len(cs) THEN fl[cs[k]]
  ELSE LET r == MinOver(fl, cs, k + 1)
       IN IF fl[cs[k]] <= r THEN fl[cs[k]] ELSE r

OpenNeighbors(wl, cell) ==
  SelectSeq(neighbors(cell), LAMBDA i : ~InSeq(i, wl[cell]))

\* A pop of the cell c does something: min() of no value raises, or the
\* guard flood[cell] <= m holds and the cell is raised.
Acting(e, c) ==
  \/ OpenNeighbors(e.walls, c) = <<>>
  \/ e.flood[c] <= MinOver(e.flood, OpenNeighbors(e.walls, c), 1)

\* No entry of the stack does anything: the loop pops them all and ends.
Idle(e, q) == \A k \in 1 .. Len(q) : ~Acting(e, q[k])

\* The first entry from the right whose pop does something: the entries
\* to its right are popped before it and change nothing.
LastActing(e, q) ==
  CHOOSE k \in 1 .. Len(q) :
    Acting(e, q[k]) /\ \A j \in k + 1 .. Len(q) : ~Acting(e, q[j])

\* The while loop of floodfill_all on the stack q (popped from the right),
\* one level for each pop that does something.  min() of no value raises
\* ValueError.  A raise above MaxField ends the model's run of the loop
\* with "Unbounded".
RECURSIVE FloodLoop(_, _)
FloodLoop(e, q) ==
  IF q = <<>> \/ e.exc # "none" \/ Idle(e, q) THEN e
  ELSE LET top == LastActing(e, q)
           cell == q[top]
           q1 == SubSeq(q, 1, top - 1)
           nbrs == OpenNeighbors(e.walls, cell)
       IN IF nbrs = <<>> THEN [e EXCEPT !.exc = "ValueError"]
          ELSE LET m == MinOver(e.flood, nbrs, 1)
               IN IF e.flood[cell] <= m
                  THEN IF m + 1 > MaxField
                       THEN [e EXCEPT !.exc = "Unbounded"]
                       ELSE FloodLoop([e EXCEPT !.flood[cell] = m + 1,
                                                !.floods = @ + 1,
                                                !.lowered =
                                                  @ \/ m + 1 < e.flood[cell]],
                                      q1 \o nbrs)
                  ELSE FloodLoop(e, q1)

\* A floodfill_all that starts over from the initial field.
floodfill_all_FromScratch(e, cell) ==
  IF e.exc # "none" THEN e
  ELSE FloodLoop([e EXCEPT !.flood = InitialFlood], <<cell>>)

\* A floodfill_all that also raises, by one, the neighbors recorded as
\* blocked from the cell.
floodfill_all_RaisesBlocked(e, cell) ==
  IF e.exc # "none" THEN e
  ELSE LET r == FloodLoop(e, <<cell>>)
       IN [r EXCEPT !.flood = [c \in DOMAIN r.flood |->
                                 IF InSeq(c, r.walls[cell])
                                 THEN r.flood[c] + 1 ELSE r.flood[c]]]

floodfill_all(e, cell) ==
  IF e.exc # "none" THEN e ELSE FloodLoop(e, <<cell>>)

\* ------------------------------------------------------------ FloodFillExplorer
\* A find_cell that takes the first candidate of minimum value whatever
\* the orientation.
RECURSIVE find_cell_FirstOfMinimum(_, _, _)
find_cell_FirstOfMinimum(e, cell, ignore) ==
  IF e.exc # "none" THEN e
  ELSE
  LET nbrs == SelectSeq(neighbors(e.current), LAMBDA i : i \notin ignore)
  IN IF nbrs = <<>> THEN [e EXCEPT !.exc = "IndexError"]
     ELSE
     LET m == MinOver(e.flood, nbrs, 1)
         indices == SelectSeq([k \in 1 .. Len(nbrs) |-> k],
                              LAMBDA k : e.flood[nbrs[k]] = m)
         next_cell == nbrs[indices[1]]
     IN IF ~InSeq(next_cell, e.walls[cell])
        THEN LET e1 == IF e.flood[cell] <= e.flood[next_cell]
                       THEN floodfill_all(e, cell)
                       ELSE e
             IN [e1 EXCEPT !.next = next_cell]
        ELSE find_cell_FirstOfMinimum(floodfill_all(e, cell), cell,
                                      ignore \cup {next_cell})

\* find_cell: the candidates are the neighbors of self.current outside
\* ignore; among those of minimum value the one straight ahead, else the
\* first; indices[0] of no candidate raises IndexError.  The result is
\* the engine with e.next set to the cell returned.
RECURSIVE find_cell(_, _, _)
find_cell(e, cell, ignore) ==
  IF e.exc # "none" THEN e
  ELSE
  LET nbrs == SelectSeq(neighbors(e.current), LAMBDA i : i \notin ignore)
  IN IF nbrs = <<>> THEN [e EXCEPT !.exc = "IndexError"]
     ELSE
     LET m == MinOver(e.flood, nbrs, 1)
         indices == SelectSeq([k \in 1 .. Len(nbrs) |-> k],
                              LAMBDA k : e.flood[nbrs[k]] = m)
         check == SelectSeq(indices,
                            LAMBDA k : Sub(nbrs[k], cell) = mapping(e.orient))
         next_cell == nbrs[IF check # <<>> THEN check[1] ELSE indices[1]]
     IN IF ~InSeq(next_cell, e.walls[cell])
        THEN LET e1 == IF e.flood[cell] <= e.flood[next_cell]
                       THEN floodfill_all(e, cell)
                       ELSE e
             IN [e1 EXCEPT !.next = next_cell]
        ELSE find_cell(floodfill_all(e, cell), cell, ignore \cup {next_cell})

\* One pass of the while loop of FloodFill.run, up to the move.
FF_RunBody(e) ==
  LET e1 == FF_update_walls(e)
      e2 == find_cell(e1, e1.current, {})
  IN FF_move(e2, e2.next)

RECURSIVE FF_MoveAlong(_, _, _)
FF_MoveAlong(e, path, k) ==
  IF k > Len(path) THEN e ELSE FF_MoveAlong(FF_move(e, path[k]), path, k + 1)

\* steps[-2::-1] + [(0, 0)]
BackToStart(path) ==
  Reverse(SubSeq(path, 1, Len(path) - 1)) \o <<Origin>>

MinKey(ps) == CHOOSE k \in DOMAIN ps : \A j \in DOMAIN ps : k <= j

\* A reset that also forgets the walls recorded.
FF_reset_ClearsWalls(e, ps) ==
  LET e1 == IF DOMAIN ps # {}
            THEN turn_left(turn_left(FF_MoveAlong(e, BackToStart(ps[MinKey(ps)]), 1)))
            ELSE e
  IN IF e1.exc # "none" THEN e1
     ELSE [e1 EXCEPT !.orient = EAST, !.current = Origin,
                     !.walls = [c \in Cells |-> <<>>]]

\* FloodFill.reset: with a stored path, walk the shortest one back and
\* turn left twice; then set the tracked pose to the origin, East.
FF_reset(e, ps) ==
  LET e1 == IF DOMAIN ps # {}
            THEN turn_left(turn_left(FF_MoveAlong(e, BackToStart(ps[MinKey(ps)]), 1)))
            ELSE e
  IN IF e1.exc # "none" THEN e1
     ELSE [e1 EXCEPT !.orient = EAST, !.current = Origin]

\* A store under the number of moves instead of the number of cells.
PathsPut_KeyedByMoves(ps, path) ==
  [k \in DOMAIN ps \cup {Len(path) - 1} |->
     IF k = Len(path) - 1 THEN path ELSE ps[k]]

\* self.paths[len(path)] = path
PathsPut(ps, path) ==
  [k \in DOMAIN ps \cup {Len(path)} |-> IF k = Len(path) THEN path ELSE ps[k]]

\* ------------------------------------------------------------ replay
\* list.index(x): the first position of x.
Index(s, x) == CHOOSE k \in 1 .. Len(s) : s[k] = x /\ \A j \in 1 .. k - 1 : s[j] # x

\* A stitched path that stops at the common point, without the way down.
Stitch_NoDescent(from_path, to_path) ==
  LET hits == {k \in 1 .. Len(from_path) : InSeq(from_path[k], to_path)}
      i == IF hits # {} THEN CHOOSE k \in hits : \A j \in hits : k <= j
           ELSE Len(from_path)
  IN IF ~InSeq(from_path[i], to_path)
     THEN [exc |-> "ValueError", path |-> <<>>]
     ELSE [exc |-> "none", path |-> SubSeq(from_path, 1, i)]

\* The stitched path of AStar.run and DFS.run: from_path up to its first
\* point that lies on to_path (the last point when the loop never
\* breaks), then to_path from that point back down.  to_path.index of a
\* point that is not on to_path raises ValueError.
Stitch(from_path, to_path) ==
  LET hits == {k \in 1 .. Len(from_path) : InSeq(from_path[k], to_path)}
      i == IF hits # {} THEN CHOOSE k \in hits : \A j \in hits : k <= j
           ELSE Len(from_path)
  IN IF ~InSeq(from_path[i], to_path)
     THEN [exc |-> "ValueError", path |-> <<>>]
     ELSE [exc |-> "none",
           path |-> SubSeq(from_path, 1, i)
                    \o Reverse(SubSeq(to_path, 1, Index(to_path, from_path[i])))]

\* for point in complete_path: self.move(point); self.update_walls()
RECURSIVE AStar_Replay(_, _, _)
AStar_Replay(e, path, k) ==
  IF k > Len(path) THEN e
  ELSE AStar_Replay(AStar_update_walls(AStar_move(e, path[k])), path, k + 1)

RECURSIVE DFS_Replay(_, _, _)
DFS_Replay(e, path, k) ==
  IF k > Len(path) THEN e
  ELSE DFS_Replay(DFS_update_walls(DFS_move(e, path[k])), path, k + 1)

\* for i in steps[-2::-1] + [(0, 0)]: self.move(i)
RECURSIVE AStar_MoveAlong(_, _, _)
AStar_MoveAlong(e, path, k) ==
  IF k > Len(path) THEN e ELSE AStar_MoveAlong(AStar_move(e, path[k]), path, k + 1)

RECURSIVE DFS_MoveAlong(_, _, _)
DFS_MoveAlong(e, path, k) ==
  IF k > Len(path) THEN e ELSE DFS_MoveAlong(DFS_move(e, path[k]), path, k + 1)

\* AStar.reset: manual acknowledges the reset and sets the tracked pose;
\* otherwise the shortest stored path is walked back, if there is one.
AStar_reset(e, ps, manual) ==
  IF manual
  THEN [ack_reset(e) EXCEPT !.current = Origin, !.orient = EAST]
  ELSE IF DOMAIN ps # {}
       THEN AStar_MoveAlong(e, BackToStart(ps[MinKey(ps)]), 1)
       ELSE e

DFS_reset(e, ps, manual) ==
  IF manual
  THEN [ack_reset(e) EXCEPT !.current = Origin, !.orient = EAST]
  ELSE IF DOMAIN ps # {}
       THEN DFS_MoveAlong(e, BackToStart(ps[MinKey(ps)]), 1)
       ELSE e

\* ------------------------------------------------------------ AStarExplorer
\* A Node is [parent, position, g, h]; parent is the index of the parent
\* in the list of nodes created, 0 for None.  The heuristic is
\* 4 * d ** 0.5 with d the squared distance; h holds d, and f = g + h is
\* g + 4 * d ** 0.5 for every node that enters the open list (0 for the
\* start node).
heuristic(a, b) ==
  (a[1] - b[1]) * (a[1] - b[1]) + (a[2] - b[2]) * (a[2] - b[2])

\* sqrt(A) < k + sqrt(B) for naturals A, B and an integer k, decided in
\* integers.
RootLess(A, k, B) ==
  IF k >= 0
  THEN LET M == A - k * k - B IN M < 0 \/ M * M < 4 * k * k * B
  ELSE LET N == B - A - k * k IN N > 0 /\ 4 * k * k * A < N * N

\* Node.__lt__: self.f < other.f.
Node_lt(a, b) == RootLess(16 * a.h, b.g - a.g, 16 * b.h)

\* heapq._siftdown, positions counted from 0 as in the library.
RECURSIVE SiftDownLoop(_, _, _, _, _)
SiftDownLoop(heap, startpos, pos, newitem, ns) ==
  IF pos > startpos
  THEN LET parentpos == (pos - 1) \div 2
           parent_ == heap[parentpos + 1]
       IN IF Node_lt(ns[newitem], ns[parent_])
          THEN SiftDownLoop([heap EXCEPT ![pos + 1] = parent_],
                            startpos, parentpos, newitem, ns)
          ELSE [heap EXCEPT ![pos + 1] = newitem]
  ELSE [heap EXCEPT ![pos + 1] = newitem]

siftdown(heap, startpos, pos, ns) ==
  SiftDownLoop(heap, startpos, pos, heap[pos + 1], ns)

\* heapq._siftup: bubble the smaller child up to a leaf, then sift the
\* item down from there.
RECURSIVE SiftUpLoop(_, _, _, _)
SiftUpLoop(heap, pos, childpos, ns) ==
  IF childpos < Len(heap)
  THEN LET rightpos == childpos + 1
           c == IF rightpos < Len(heap)
                   /\ ~Node_lt(ns[heap[childpos + 1]], ns[heap[rightpos + 1]])
                THEN rightpos ELSE childpos
       IN SiftUpLoop([heap EXCEPT ![pos + 1] = heap[c + 1]], c, 2 * c + 1, ns)
  ELSE <<heap, pos>>

siftup(heap, pos, ns) ==
  LET newitem == heap[pos + 1]
      r == SiftUpLoop(heap, pos, 2 * pos + 1, ns)
  IN siftdown([r[1] EXCEPT ![r[2] + 1] = newitem], pos, r[2], ns)

heappush(heap, item, ns) == siftdown(Append(heap, item), 0, Len(heap), ns)

\* heapq.heappop of a non-empty heap: <<the item, the heap left>>.
heappop(heap, ns) ==
  LET lastelt == heap[Len(heap)]
      rest == SubSeq(heap, 1, Len(heap) - 1)
  IN IF rest # <<>>
     THEN <<rest[1], siftup([rest EXCEPT ![1] = lastelt], 0, ns)>>
     ELSE <<lastelt, rest>>

\* list(node): the positions from the node up to the root.
RECURSIVE NodePath(_, _)
NodePath(ns, i) ==
  IF i = 0 THEN <<>> ELSE <<ns[i].position>> \o NodePath(ns, ns[i].parent)

\* min(end_nodes, key=...): the first destination of least heuristic.
NearestEnd(p) ==
  LET k == CHOOSE k \in 1 .. Len(destination) :
             /\ \A j \in 1 .. Len(destination) :
                  heuristic(destination[k], p) <= heuristic(destination[j], p)
             /\ \A j \in 1 .. k - 1 :
                  heuristic(destination[j], p) # heuristic(destination[k], p)
  IN destination[k]

\* Children that stop at the first open neighbor.
Children_FirstOnly(ns, cur, wl) ==
  LET c == ns[cur].position
      open == SelectSeq(neighbors(c), LAMBDA n : ~InSeq(n, wl[c]))
  IN [k \in 1 .. (IF open = <<>> THEN 0 ELSE 1) |->
        [parent |-> cur, position |-> open[k], g |-> ns[cur].g + 1,
         h |-> heuristic(open[k], NearestEnd(open[k]))]]

\* The children of the node popped: its neighbors not recorded as
\* blocked from it, in scan order.
Children(ns, cur, wl) ==
  LET c == ns[cur].position
      open == SelectSeq(neighbors(c), LAMBDA n : ~InSeq(n, wl[c]))
  IN [k \in 1 .. Len(open) |->
        [parent |-> cur, position |-> open[k], g |-> ns[cur].g + 1,
         h |-> heuristic(open[k], NearestEnd(open[k]))]]

\* A membership test that compares whole nodes, not positions.
NodeIn_WholeNode(ns, list, child) ==
  \E j \in 1 .. Len(list) : ns[list[j]] = child

\* child in closed_list, child in open_list: Node.__eq__ compares positions.
NodeIn(ns, list, child) ==
  \E j \in 1 .. Len(list) : ns[list[j]].position = child.position

\* A loop that skips only the children on the open list.
RECURSIVE PushChildren_ReopensClosed(_, _, _, _, _)
PushChildren_ReopensClosed(ns, heap, closed, children, k) ==
  IF k > Len(children) THEN <<ns, heap>>
  ELSE IF NodeIn(ns, heap, children[k])
       THEN PushChildren_ReopensClosed(ns, heap, closed, children, k + 1)
       ELSE LET ns2 == Append(ns, children[k])
            IN PushChildren_ReopensClosed(ns2, heappush(heap, Len(ns2), ns2),
                                          closed, children, k + 1)

\* for child in children: skip the closed and the open ones, push the
\* rest.  The result is <<nodes, open_list>>.
RECURSIVE PushChildren(_, _, _, _, _)
PushChildren(ns, heap, closed, children, k) ==
  IF k > Len(children) THEN <<ns, heap>>
  ELSE IF NodeIn(ns, closed, children[k]) \/ NodeIn(ns, heap, children[k])
       THEN PushChildren(ns, heap, closed, children, k + 1)
       ELSE LET ns2 == Append(ns, children[k])
            IN PushChildren(ns2, heappush(heap, Len(ns2), ns2), closed,
                            children, k + 1)

\* ------------------------------------------------------------ DFSExplorer
\* [c]; check = parent[c]; while check: append(check); check = parent[check]
RECURSIVE ParentPath(_, _)
ParentPath(par, c) ==
  IF c = <<>> THEN <<>> ELSE <<c>> \o ParentPath(par, par[c])

\* A loop that pushes the neighbors recorded as blocked as well.
RECURSIVE PushNeighbors_ThroughWalls(_, _, _, _, _, _)
PushNeighbors_ThroughWalls(par, stk, vis, wl, cur, k) ==
  IF k > Len(neighbors(cur)) THEN <<par, stk>>
  ELSE LET n == neighbors(cur)[k]
       IN IF n \in vis
          THEN PushNeighbors_ThroughWalls(par, stk, vis, wl, cur, k + 1)
          ELSE PushNeighbors_ThroughWalls([par EXCEPT ![n] = cur],
                                          Append(stk, n), vis, wl, cur, k + 1)

\* A loop that pushes the neighbors without recording their parent.
RECURSIVE PushNeighbors_NoParent(_, _, _, _, _, _)
PushNeighbors_NoParent(par, stk, vis, wl, cur, k) ==
  IF k > Len(neighbors(cur)) THEN <<par, stk>>
  ELSE LET n == neighbors(cur)[k]
       IN IF n \in vis \/ InSeq(n, wl[cur])
          THEN PushNeighbors_NoParent(par, stk, vis, wl, cur, k + 1)
          ELSE PushNeighbors_NoParent(par, Append(stk, n), vis, wl, cur, k + 1)

\* for neighbor in self.neighbors(current): skip the visited and the
\* blocked ones, set the parent of the rest and push them.  The result is
\* <<parent, stack>>.
RECURSIVE PushNeighbors(_, _, _, _, _, _)
PushNeighbors(par, stk, vis, wl, cur, k) ==
  IF k > Len(neighbors(cur)) THEN <<par, stk>>
  ELSE LET n == neighbors(cur)[k]
       IN IF n \in vis \/ InSeq(n, wl[cur])
          THEN PushNeighbors(par, stk, vis, wl, cur, k + 1)
          ELSE PushNeighbors([par EXCEPT ![n] = cur], Append(stk, n), vis, wl,
                             cur, k + 1)

\* ------------------------------------------------------------ the wire
\* A response line is a sequence of characters.
RECURSIVE LStrip(_)
LStrip(s) == IF s # <<>> /\ Head(s) = " " THEN LStrip(Tail(s)) ELSE s

\* str.strip() on a line whose only whitespace is the space.
strip(s) == Reverse(LStrip(Reverse(LStrip(s))))

Digits == <<"0", "1", "2", "3", "4", "5", "6", "7", "8", "9">>

RECURSIVE DecimalValue(_, _)
DecimalValue(s, acc) ==
  IF s = <<>> THEN acc
  ELSE DecimalValue(Tail(s), 10 * acc + (Index(Digits, Head(s)) - 1))

\* int(response) on a stripped line of digits, signs, letters and
\* spaces: an optional sign and at least one digit, else ValueError.
int(s) ==
  LET signed == s # <<>> /\ Head(s) \in {"+", "-"}
      body == IF signed THEN Tail(s) ELSE s
  IN IF body = <<>> \/ \E k \in 1 .. Len(body) : ~InSeq(body[k], Digits)
     THEN [exc |-> "ValueError", value |-> <<>>]
     ELSE [exc |-> "none",
           value |-> <<"int", IF signed /\ Head(s) = "-"
                              THEN 0 - DecimalValue(body, 0)
                              ELSE DecimalValue(body, 0)>>]

\* Mouse.command after the command line is written: with a return type
\* the response line is read and stripped; a bool is the comparison with
\* str(True).lower(), any other type is called on the response.
command(rt, response_line) ==
  IF rt = "none" THEN [exc |-> "none", value |-> <<>>]
  ELSE LET response == strip(response_line)
       IN IF rt = "bool"
          THEN [exc |-> "none",
                value |-> <<"bool", response = <<"t", "r", "u", "e">>>>]
          ELSE IF rt = "int" THEN int(response)
          ELSE [exc |-> "none", value |-> <<"str", response>>]

\* ------------------------------------------------------------ state
VARIABLES
  algo,         \* the class under test: "FloodFill", "AStar", "DFS" or "cut"
  pc,           \* where the caller stands: "idle", "run", "done", "raised", ...
  pass,         \* the number of run() calls started on this engine
  maze,         \* the physical maze (the capability's side)
  truthful,     \* whether the wall sensors answer truthfully
  pos,          \* the robot's physical cell
  face,         \* the robot's physical facing
  cmds,         \* the commands issued since the current call began
  current,      \* self.current
  orient,       \* self.orient
  walls,        \* self.walls: cell -> list of blocked neighbors (<<>>: no key)
  flood,        \* self.flood (FloodFill)
  paths,        \* self.paths: a function from the keys to the paths
  exc,          \* the exception that left the current call, or "none"
  steps,        \* FloodFill.run: the raw list of cells moved to
  nodes,        \* AStar.run: the Node objects created and pushed, in order
  open_list,    \* AStar.run: the heap, as indices into nodes
  closed_list,  \* AStar.run: the popped nodes, as indices into nodes
  last_node,    \* AStar.run: index of the node popped before
  visited,      \* DFS.run: the visited set
  stack,        \* DFS.run: the stack
  parent,       \* DFS.run: the parent map (None is read as <<>>)
  ret,          \* the value the last run() returned
  arg,          \* the cell handed to the last call of move
  pre,          \* the engine's fields when the current call began
  floods,       \* how many times floodfill_all raised a value in this call
  lowered,      \* whether an assignment of floodfill_all ever lowered a value
  next,         \* the cell find_cell returned last
  cutArg,       \* the list handed to cut_redundant_steps
  cutRes,       \* the results of applying cut_redundant_steps once, twice
  return_type,  \* Mouse.command: the return type of the command sent
  line,         \* Mouse.command: the response line read, as characters
  reply,        \* Mouse.command: what the call raised and returned
  matrix        \* generate_flood_matrix: the matrix returned

drive == <<maze, truthful, pos, face, cmds>>

engine == <<current, orient, walls, flood, paths, exc>>

ffLocals == <<steps>>

astarLocals == <<nodes, open_list, closed_list, last_node>>

dfsLocals == <<visited, stack, parent>>

cutVars == <<cutArg, cutRes>>

wireVars == <<return_type, line, reply>>

fieldVars == <<self_w, self_h, matrix>>

vars == <<algo, pc, pass, drive, engine, ffLocals, astarLocals, dfsLocals,
          ret, arg, pre, floods, lowered, next, cutVars, wireVars, fieldVars>>

\* The engine record of the current state, and its write-back.
Eng ==
  [current |-> current, orient |-> orient, walls |-> walls, maze |-> maze,
   truthful |-> truthful, pos |-> pos, face |-> face, cmds |-> cmds,
   exc |-> exc, arg |-> arg, flood |-> flood, floods |-> floods,
   lowered |-> lowered,
   next |-> next]

Commit(e) ==
  /\ current' = e.current
  /\ orient' = e.orient
  /\ walls' = e.walls
  /\ pos' = e.pos
  /\ face' = e.face
  /\ cmds' = e.cmds
  /\ exc' = e.exc
  /\ arg' = e.arg
  /\ flood' = e.flood
  /\ floods' = e.floods
  /\ lowered' = e.lowered
  /\ next' = e.next
  /\ UNCHANGED <<maze, truthful>>

Snapshot ==
  [current |-> current, orient |-> orient, walls |-> walls, flood |-> flood,
   paths |-> paths, pos |-> pos, face |-> face]

NoWalls == [c \in Cells |-> <<>>]

NoFlood == [c \in Cells |-> 0]

NoPre ==
  [current |-> Origin, orient |-> EAST, walls |-> NoWalls, flood |-> NoFlood,
   paths |-> <<>>, pos |-> Origin, face |-> EAST]

\* The locals of the run methods and the cut variables while unused.
IdleLocals ==
  /\ steps = <<>>
  /\ nodes = <<>>
  /\ open_list = <<>>
  /\ closed_list = <<>>
  /\ last_node = 0
  /\ visited = {}
  /\ stack = <<>>
  /\ parent = [c \in Cells |-> <<>>]
  /\ ret = <<>>
  /\ floods = 0
  /\ lowered = FALSE
  /\ return_type = "none"
  /\ line = <<>>
  /\ reply = [exc |-> "none", value |-> <<>>]
  /\ matrix = <<>>
  /\ next = Origin

IdleCut == cutArg = <<>> /\ cutRes = <<>>

\* ------------------------------------------------------------ one move
\* The single-move specification: an engine of any class stands on any
\* cell with any orientation and any recorded walls for that cell; the
\* robot stands where the engine tracks it, in a maze with up to
\* MoveWalls walls around the cell; move is called once with any target.
RECURSIVE SubsetsUpTo(_, _)
SubsetsUpTo(S, k) ==
  IF k = 0 THEN {{}}
  ELSE LET P == SubsetsUpTo(S, k - 1)
       IN P \cup {p \cup {w} : p \in P, w \in S}

\* The lists over the neighbors of c without repetition, as the scan
\* order restricted to a subset.
WallLists(c) ==
  {SelectSeq(neighbors(c), LAMBDA n : n \in S) :
     S \in SUBSET {neighbors(c)[k] : k \in 1 .. Len(neighbors(c))}}

EdgesAt(c) == {e \in InteriorEdges : c \in e}

Targets == (-1 .. self_w) \X (-1 .. self_h)

InitMove ==
  /\ Reports(W, H)
  /\ algo \in {"FloodFill", "AStar", "DFS"}
  /\ pc = "ready"
  /\ pass = 0
  /\ current \in Cells
  /\ orient \in DIRECTIONS
  /\ \E l \in WallLists(current) : walls = [NoWalls EXCEPT ![current] = l]
  /\ maze \in SubsetsUpTo(EdgesAt(current), MoveWalls)
  /\ truthful = TRUE
  /\ pos = current
  /\ face = orient
  /\ cmds = <<>>
  /\ flood = NoFlood
  /\ paths = <<>>
  /\ exc = "none"
  /\ arg = Origin
  /\ pre = NoPre
  /\ IdleLocals
  /\ IdleCut

MoveFrame ==
  UNCHANGED <<algo, pass, paths, ffLocals, astarLocals, dfsLocals,
              ret, cutVars, wireVars, fieldVars>>

FloodFillMove(t) ==
  /\ algo = "FloodFill" /\ pc = "ready"
  /\ Commit(FF_move(Eng, t))
  /\ pc' = "moved" /\ pre' = Snapshot
  /\ MoveFrame

AStarMove(t) ==
  /\ algo = "AStar" /\ pc = "ready"
  /\ Commit(AStar_move(Eng, t))
  /\ pc' = "moved" /\ pre' = Snapshot
  /\ MoveFrame

DFSMove(t) ==
  /\ algo = "DFS" /\ pc = "ready"
  /\ Commit(DFS_move(Eng, t))
  /\ pc' = "moved" /\ pre' = Snapshot
  /\ MoveFrame

NextMove ==
  \E t \in Targets : FloodFillMove(t) \/ AStarMove(t) \/ DFSMove(t)

SpecMove == InitMove /\ [][NextMove]_vars

\* ------------------------------------------------------------ one sensing
\* The single-sensing specification: from the states of the single-move
\* specification, update_walls is called once.
FloodFillSense ==
  /\ algo = "FloodFill" /\ pc = "ready"
  /\ Commit(FF_update_walls(Eng))
  /\ pc' = "sensed" /\ pre' = Snapshot
  /\ MoveFrame

AStarSense ==
  /\ algo = "AStar" /\ pc = "ready"
  /\ Commit(AStar_update_walls(Eng))
  /\ pc' = "sensed" /\ pre' = Snapshot
  /\ MoveFrame

DFSSense ==
  /\ algo = "DFS" /\ pc = "ready"
  /\ Commit(DFS_update_walls(Eng))
  /\ pc' = "sensed" /\ pre' = Snapshot
  /\ MoveFrame

NextSense == FloodFillSense \/ AStarSense \/ DFSSense

SpecSense == InitMove /\ [][NextSense]_vars

\* ------------------------------------------------------------ the optimizer alone
\* cut_redundant_steps applied to every list of at most MaxLen cells of a
\* 2 x 2 block, and then to its own result.
CutCells == (0 .. 1) \X (0 .. 1)

RECURSIVE ListsUpTo(_, _)
ListsUpTo(S, n) ==
  IF n = 0 THEN {<<>>}
  ELSE LET P == ListsUpTo(S, n - 1)
       IN P \cup {Append(p, c) : p \in P, c \in S}

InitCut ==
  /\ Reports(W, H)
  /\ algo = "cut"
  /\ pc = "ready"
  /\ pass = 0
  /\ current = Origin /\ orient = EAST /\ walls = NoWalls
  /\ maze = {} /\ truthful = TRUE /\ pos = Origin /\ face = EAST
  /\ cmds = <<>> /\ flood = NoFlood /\ paths = <<>> /\ exc = "none"
  /\ arg = Origin /\ pre = NoPre
  /\ IdleLocals
  /\ cutArg \in ListsUpTo(CutCells, MaxLen)
  /\ cutRes = <<>>

CutCall ==
  /\ algo = "cut" /\ Len(cutRes) < 2
  /\ cutRes' = Append(cutRes,
                      cut_redundant_steps(IF cutRes = <<>> THEN cutArg
                                          ELSE cutRes[Len(cutRes)]))
  /\ UNCHANGED <<algo, pc, pass, drive, engine, ffLocals, astarLocals,
                 dfsLocals, ret, arg, pre, floods, lowered, next, cutArg, wireVars, fieldVars>>

NextCut == CutCall

SpecCut == InitCut /\ [][NextCut]_vars

\* ------------------------------------------------------------ one response
\* Mouse.command called once for a command of any return type, answered
\* by any line of at most MaxLine characters of the alphabet, or by one
\* of the lines the simulator sends.
MaxLine == 3

Alphabet == {"t", "1", "2", "-", " "}

SimulatorLines ==
  {<<"t", "r", "u", "e">>, <<"f", "a", "l", "s", "e">>,
   <<"c", "r", "a", "s", "h">>, <<"a", "c", "k">>, <<"1", "6">>}

InitWire ==
  /\ Reports(W, H)
  /\ algo = "wire"
  /\ pc = "ready"
  /\ pass = 0
  /\ current = Origin /\ orient = EAST /\ walls = NoWalls
  /\ maze = {} /\ truthful = TRUE /\ pos = Origin /\ face = EAST
  /\ cmds = <<>> /\ flood = NoFlood /\ paths = <<>> /\ exc = "none"
  /\ arg = Origin /\ pre = NoPre
  /\ steps = <<>> /\ nodes = <<>> /\ open_list = <<>> /\ closed_list = <<>>
  /\ last_node = 0 /\ visited = {} /\ stack = <<>>
  /\ parent = [c \in Cells |-> <<>>]
  /\ ret = <<>> /\ floods = 0 /\ lowered = FALSE /\ next = Origin
  /\ IdleCut
  /\ return_type \in {"bool", "int", "str", "none"}
  /\ line \in ListsUpTo(Alphabet, MaxLine) \cup SimulatorLines
  /\ reply = [exc |-> "none", value |-> <<>>]
  /\ matrix = <<>>

MouseCommand ==
  /\ algo = "wire" /\ pc = "ready"
  /\ reply' = command(return_type, line)
  /\ pc' = "answered"
  /\ UNCHANGED <<algo, pass, drive, engine, ffLocals, astarLocals, dfsLocals,
                 ret, arg, pre, floods, lowered, next, cutVars, return_type,
                 line, fieldVars>>

NextWire == MouseCommand

SpecWire == InitWire /\ [][NextWire]_vars

\* ------------------------------------------------------------ one field
\* A FloodFill engine is constructed on a grid of any width and height up
\* to MaxSide: generate_flood_matrix builds the field.  On a square grid
\* the first pass of the loop of run then takes its decision at the
\* origin, whose neighbors are (0,1) and (1,0) in every grid with at
\* least two rows and columns.
MaxSide == 16

InitField ==
  /\ self_w \in 1 .. MaxSide
  /\ self_h \in 1 .. MaxSide
  /\ algo = "FloodFill"
  /\ pc = "construct"
  /\ pass = 0
  /\ current = Origin /\ orient = EAST /\ walls = NoWalls
  /\ maze = {} /\ truthful = TRUE /\ pos = Origin /\ face = EAST
  /\ cmds = <<>> /\ flood = NoFlood /\ paths = <<>> /\ exc = "none"
  /\ arg = Origin /\ pre = NoPre
  /\ steps = <<>> /\ nodes = <<>> /\ open_list = <<>> /\ closed_list = <<>>
  /\ last_node = 0 /\ visited = {} /\ stack = <<>>
  /\ parent = [c \in Cells |-> <<>>]
  /\ ret = <<>> /\ floods = 0 /\ lowered = FALSE /\ next = Origin
  /\ IdleCut
  /\ return_type = "none" /\ line = <<>>
  /\ reply = [exc |-> "none", value |-> <<>>]
  /\ matrix = <<>>

\* self.flood = self.generate_flood_matrix()
GenerateFloodMatrix ==
  /\ algo = "FloodFill" /\ pc = "construct"
  /\ matrix' = generate_flood_matrix(self_w, self_h)
  /\ flood' = [c \in (0 .. Len(matrix') - 1) \X (0 .. Len(matrix'[1]) - 1) |->
                 matrix'[c[1] + 1][c[2] + 1]]
  /\ pc' = "constructed"
  /\ UNCHANGED <<algo, pass, drive, current, orient, walls, paths, exc,
                 ffLocals, astarLocals, dfsLocals, ret, arg, pre, floods,
                 lowered, next, cutVars, wireVars, self_w, self_h>>

\* The first pass of the loop of run up to the decision: the loop is
\* entered on a non-zero value, the walls are sensed, find_cell decides.
FirstDecision ==
  /\ algo = "FloodFill" /\ pc = "constructed"
  /\ self_w = self_h /\ self_w >= 2
  /\ flood[current] # 0
  /\ LET e == FF_update_walls([Eng EXCEPT !.floods = 0])
     IN Commit(find_cell(e, e.current, {}))
  /\ pc' = "decided"
  /\ pre' = Snapshot
  /\ UNCHANGED <<algo, pass, paths, ffLocals, astarLocals, dfsLocals, ret,
                 cutVars, wireVars, fieldVars>>

NextField == GenerateFloodMatrix \/ FirstDecision

SpecField == InitField /\ [][NextField]_vars

\* ------------------------------------------------------------ exploring
\* The state after the constructor, in a maze with at most MaxWalls
\* walls, with truthful sensors or with sensors stuck at "no wall".
InitEngine ==
  /\ pc = "idle"
  /\ pass = 0
  /\ maze \in MazesUpTo(MaxWalls)
  /\ truthful \in BOOLEAN
  /\ pos = Origin
  /\ face = EAST
  /\ cmds = <<>>
  /\ current = Origin
  /\ orient = EAST
  /\ walls = NoWalls
  /\ paths = <<>>
  /\ exc = "none"
  /\ arg = Origin
  /\ pre = NoPre
  /\ IdleLocals
  /\ IdleCut

InitFloodFill ==
  Reports(W, H) /\ algo = "FloodFill" /\ flood = InitialFlood /\ InitEngine

\* The caller enters run(): steps = [].
FloodFillRunStart ==
  /\ algo = "FloodFill" /\ pc = "idle" /\ pass < MaxPasses
  /\ pc' = "run"
  /\ pass' = pass + 1
  /\ steps' = <<>>
  /\ cmds' = <<>>
  /\ pre' = Snapshot
  /\ floods' = 0
  /\ UNCHANGED <<algo, maze, truthful, pos, face, engine, astarLocals,
                 dfsLocals, ret, arg, lowered, next, cutVars, wireVars, fieldVars>>

\* One pass of the while loop: sense, decide, move, append.
FloodFillRunStep ==
  /\ algo = "FloodFill" /\ pc = "run"
  /\ flood[current] # 0
  /\ LET e == FF_RunBody([Eng EXCEPT !.floods = 0])
     IN /\ Commit(e)
        /\ steps' = IF e.exc = "none" THEN Append(steps, e.next) ELSE steps
        /\ pc' = IF e.exc = "none" THEN "run" ELSE "raised"
  /\ UNCHANGED <<algo, pass, paths, astarLocals, dfsLocals, ret, pre, cutVars, wireVars, fieldVars>>

\* The loop ends on a cell of value 0: optimize the steps and store them.
FloodFillRunReturn ==
  /\ algo = "FloodFill" /\ pc = "run"
  /\ flood[current] = 0
  /\ paths' = PathsPut(paths, cut_redundant_steps(steps))
  /\ pc' = "done"
  /\ UNCHANGED <<algo, pass, drive, current, orient, walls, flood, exc,
                 ffLocals, astarLocals, dfsLocals, ret, arg, pre, floods,
                 lowered, next, cutVars, wireVars, fieldVars>>

\* The caller calls reset() after a pass.
FloodFillReset ==
  /\ algo = "FloodFill" /\ pc = "done"
  /\ LET e == FF_reset([Eng EXCEPT !.cmds = <<>>], paths)
     IN /\ Commit(e)
        /\ pc' = IF e.exc = "none" THEN "idle" ELSE "raised"
  /\ pre' = Snapshot
  /\ UNCHANGED <<algo, pass, paths, ffLocals, astarLocals, dfsLocals, ret,
                 cutVars, wireVars, fieldVars>>

NextFloodFill ==
  \/ FloodFillRunStart
  \/ FloodFillRunStep
  \/ FloodFillRunReturn
  \/ FloodFillReset

SpecFloodFill == InitFloodFill /\ [][NextFloodFill]_vars

\* FloodFill in the larger maze, with truthful sensors; the walls stand
\* between cells of the quadrant in which the robot starts, or are among
\* the walls of a pocket, or are the walls of a winding way.
QuadrantEdges ==
  {e \in InteriorEdges :
     \A c \in e : c[1] < self_w \div 2 /\ c[2] < self_h \div 2}

\* Seven walls that form a pocket west of the goal cells; the larger maze
\* is also explored with every subset of them.
PocketWalls ==
  {{<<1, 2>>, <<1, 3>>}, {<<1, 2>>, <<2, 2>>}, {<<2, 1>>, <<2, 2>>},
   {<<3, 0>>, <<3, 1>>}, {<<3, 1>>, <<3, 2>>}, {<<4, 1>>, <<4, 2>>},
   {<<4, 1>>, <<5, 1>>}}

\* Ten walls that wind the way from the start around the goal cells.
WindingWalls ==
  {{<<0, 1>>, <<1, 1>>}, {<<0, 2>>, <<1, 2>>}, {<<1, 2>>, <<1, 3>>},
   {<<1, 3>>, <<2, 3>>}, {<<2, 3>>, <<2, 4>>}, {<<3, 3>>, <<3, 4>>},
   {<<3, 3>>, <<4, 3>>}, {<<4, 2>>, <<4, 3>>}, {<<4, 2>>, <<5, 2>>},
   {<<5, 1>>, <<5, 2>>}}

LargeMazes ==
  SubsetsUpTo(QuadrantEdges, LargeWalls) \cup SUBSET PocketWalls
    \cup {WindingWalls}

InitFloodFillLarge ==
  /\ Reports(WLarge, HLarge)
  /\ algo = "FloodFill"
  /\ flood = InitialFlood
  /\ pc = "idle"
  /\ pass = 0
  /\ maze \in LargeMazes
  /\ truthful = TRUE
  /\ pos = Origin
  /\ face = EAST
  /\ cmds = <<>>
  /\ current = Origin
  /\ orient = EAST
  /\ walls = NoWalls
  /\ paths = <<>>
  /\ exc = "none"
  /\ arg = Origin
  /\ pre = NoPre
  /\ IdleLocals
  /\ IdleCut

SpecFloodFillLarge == InitFloodFillLarge /\ [][NextFloodFill]_vars

\* ------------------------------------------------------------ AStar.run
InitAStar ==
  Reports(W, H) /\ algo = "AStar" /\ flood = NoFlood /\ InitEngine

\* The caller enters run(): the start node is pushed on the open list.
AStarRunStart ==
  /\ algo = "AStar" /\ pc = "idle" /\ pass < MaxPasses
  /\ pc' = "run"
  /\ pass' = pass + 1
  /\ nodes' = <<[parent |-> 0, position |-> current, g |-> 0, h |-> 0]>>
  /\ open_list' = <<1>>
  /\ closed_list' = <<>>
  /\ last_node' = 1
  /\ cmds' = <<>>
  /\ pre' = Snapshot
  /\ UNCHANGED <<algo, maze, truthful, pos, face, engine, ffLocals,
                 dfsLocals, ret, arg, floods, lowered, next, cutVars, wireVars, fieldVars>>

\* One pass of the while loop: pop, drive to the node popped, then either
\* return the path (a destination) or push the children.
AStarRunStep ==
  /\ algo = "AStar" /\ pc = "run"
  /\ open_list # <<>>
  /\ LET popped == heappop(open_list, nodes)
         current_node == popped[1]
         closed == Append(closed_list, current_node)
         to_path == NodePath(nodes, current_node)
         st == Stitch(NodePath(nodes, last_node), to_path)
         e == IF st.exc # "none" THEN [Eng EXCEPT !.exc = st.exc]
              ELSE AStar_Replay(Eng, st.path, 1)
         goal == InSeq(nodes[current_node].position, destination)
         pushed == PushChildren(nodes, popped[2], closed,
                                Children(nodes, current_node, e.walls), 1)
     IN /\ Commit(e)
        /\ closed_list' = closed
        /\ IF e.exc # "none"
           THEN /\ pc' = "raised"
                /\ open_list' = popped[2]
                /\ UNCHANGED <<nodes, last_node, paths, ret>>
           ELSE /\ last_node' = current_node
                /\ IF goal
                   THEN /\ paths' = PathsPut(paths, Reverse(to_path))
                        /\ ret' = Reverse(to_path)
                        /\ pc' = "done"
                        /\ open_list' = popped[2]
                        /\ UNCHANGED nodes
                   ELSE /\ nodes' = pushed[1]
                        /\ open_list' = pushed[2]
                        /\ pc' = "run"
                        /\ UNCHANGED <<paths, ret>>
  /\ UNCHANGED <<algo, pass, ffLocals, dfsLocals, pre, cutVars, wireVars, fieldVars>>

\* The open list ran empty: return [].
AStarRunReturnEmpty ==
  /\ algo = "AStar" /\ pc = "run"
  /\ open_list = <<>>
  /\ ret' = <<>>
  /\ pc' = "done"
  /\ UNCHANGED <<algo, pass, drive, engine, ffLocals, nodes, open_list,
                 closed_list, last_node, dfsLocals, arg, pre, floods, lowered, next,
                 cutVars, wireVars, fieldVars>>

\* The caller calls reset(manual) after a pass.
AStarReset(manual) ==
  /\ algo = "AStar" /\ pc = "done"
  /\ LET e == AStar_reset([Eng EXCEPT !.cmds = <<>>], paths, manual)
     IN /\ Commit(e)
        /\ pc' = IF e.exc = "none" THEN "idle" ELSE "raised"
  /\ pre' = Snapshot
  /\ UNCHANGED <<algo, pass, paths, ffLocals, astarLocals, dfsLocals, ret,
                 cutVars, wireVars, fieldVars>>

NextAStar ==
  \/ AStarRunStart
  \/ AStarRunStep
  \/ AStarRunReturnEmpty
  \/ \E manual \in BOOLEAN : AStarReset(manual)

SpecAStar == InitAStar /\ [][NextAStar]_vars

\* ------------------------------------------------------------ DFS.run
InitDFS ==
  Reports(W, H) /\ algo = "DFS" /\ flood = NoFlood /\ InitEngine

\* The caller enters run(): the stack holds the current cell.
DFSRunStart ==
  /\ algo = "DFS" /\ pc = "idle" /\ pass < MaxPasses
  /\ pc' = "run"
  /\ pass' = pass + 1
  /\ visited' = {}
  /\ stack' = <<current>>
  /\ parent' = [c \in Cells |-> <<>>]
  /\ cmds' = <<>>
  /\ pre' = Snapshot
  /\ UNCHANGED <<algo, maze, truthful, pos, face, engine, ffLocals,
                 astarLocals, ret, arg, floods, lowered, next, cutVars, wireVars, fieldVars>>

\* One pass of the while loop: pop, drive to the cell popped, then either
\* return the path (a destination) or push the neighbors.
DFSRunStep ==
  /\ algo = "DFS" /\ pc = "run"
  /\ stack # <<>>
  /\ LET cur == stack[Len(stack)]
         rest == SubSeq(stack, 1, Len(stack) - 1)
         vis == visited \cup {cur}
         to_path == ParentPath(parent, cur)
         st == Stitch(ParentPath(parent, current), to_path)
         e == IF st.exc # "none" THEN [Eng EXCEPT !.exc = st.exc]
              ELSE DFS_Replay(Eng, st.path, 1)
         pushed == PushNeighbors(parent, rest, vis, e.walls, cur, 1)
     IN /\ Commit(e)
        /\ visited' = vis
        /\ IF e.exc # "none"
           THEN /\ pc' = "raised"
                /\ stack' = rest
                /\ UNCHANGED <<parent, paths, ret>>
           ELSE IF InSeq(cur, destination)
                THEN /\ paths' = PathsPut(paths, Reverse(to_path))
                     /\ ret' = Reverse(to_path)
                     /\ pc' = "done"
                     /\ stack' = rest
                     /\ UNCHANGED parent
                ELSE /\ parent' = pushed[1]
                     /\ stack' = pushed[2]
                     /\ pc' = "run"
                     /\ UNCHANGED <<paths, ret>>
  /\ UNCHANGED <<algo, pass, ffLocals, astarLocals, pre, cutVars, wireVars, fieldVars>>

\* The stack ran empty: return [].
DFSRunReturnEmpty ==
  /\ algo = "DFS" /\ pc = "run"
  /\ stack = <<>>
  /\ ret' = <<>>
  /\ pc' = "done"
  /\ UNCHANGED <<algo, pass, drive, engine, ffLocals, astarLocals, dfsLocals,
                 arg, pre, floods, lowered, next, cutVars, wireVars, fieldVars>>

\* The caller calls reset(manual) after a pass.
DFSReset(manual) ==
  /\ algo = "DFS" /\ pc = "done"
  /\ LET e == DFS_reset([Eng EXCEPT !.cmds = <<>>], paths, manual)
     IN /\ Commit(e)
        /\ pc' = IF e.exc = "none" THEN "idle" ELSE "raised"
  /\ pre' = Snapshot
  /\ UNCHANGED <<algo, pass, paths, ffLocals, astarLocals, dfsLocals, ret,
                 cutVars, wireVars, fieldVars>>

NextDFS ==
  \/ DFSRunStart
  \/ DFSRunStep
  \/ DFSRunReturnEmpty
  \/ \E manual \in BOOLEAN : DFSReset(manual)

SpecDFS == InitDFS /\ [][NextDFS]_vars

\* ------------------------------------------------------------ any strategy
SpecExplore ==
  (InitFloodFill \/ InitAStar \/ InitDFS)
  /\ [][NextFloodFill \/ NextAStar \/ NextDFS]_vars

\* ------------------------------------------------------------ sealed goals
\* The walls between a goal cell and a cell outside the goal block; with
\* all of them standing no goal cell can be reached.
GoalRing == {e \in InteriorEdges : Cardinality(e \cap DestSet) = 1}

\* The start cell walled in.
OriginWalls == EdgesAt(Origin)

SealedMazes == SUBSET GoalRing \cup {OriginWalls}

\* AStar and DFS on the mazes the ring walls make, the sealed one among
\* them.
InitSealed ==
  /\ Reports(W, H)
  /\ algo \in {"AStar", "DFS"}
  /\ flood = NoFlood
  /\ pc = "idle"
  /\ pass = 0
  /\ maze \in SealedMazes
  /\ truthful \in BOOLEAN
  /\ pos = Origin
  /\ face = EAST
  /\ cmds = <<>>
  /\ current = Origin
  /\ orient = EAST
  /\ walls = NoWalls
  /\ paths = <<>>
  /\ exc = "none"
  /\ arg = Origin
  /\ pre = NoPre
  /\ IdleLocals
  /\ IdleCut

SpecSealed == InitSealed /\ [][NextAStar \/ NextDFS]_vars

\* ------------------------------------------------------------ main.py
\* The keyword parameters FloodFill.run accepts: none ("def run(self)").
FloodFillRunKeywords == {}

\* floodfill(): the first statement of the loop is flood.run(debug=True),
\* a call with a keyword the method does not have, which raises TypeError
\* before the body of run is entered.
MainFloodFillRun ==
  /\ algo = "FloodFill" /\ pc = "idle" /\ pass = 0
  /\ "debug" \notin FloodFillRunKeywords
  /\ pc' = "raised"
  /\ exc' = "TypeError"
  /\ pass' = pass + 1
  /\ pre' = Snapshot
  /\ UNCHANGED <<algo, drive, current, orient, walls, flood, paths, ffLocals,
                 astarLocals, dfsLocals, ret, arg, floods, lowered, next,
                 cutVars, wireVars, fieldVars>>

\* astar(): after path = astar.run(debug=True), astar.reset() with the
\* default manual=True.
MainAStarReset ==
  /\ algo = "AStar" /\ pc = "done"
  /\ LET e == AStar_reset([Eng EXCEPT !.cmds = <<>>], paths, TRUE)
     IN /\ Commit(e)
        /\ pc' = IF e.exc = "none" THEN "home" ELSE "raised"
  /\ pre' = Snapshot
  /\ UNCHANGED <<algo, pass, paths, ffLocals, astarLocals, dfsLocals, ret,
                 cutVars, wireVars, fieldVars>>

\* astar(): for point in path: astar.move(point).
MainAStarReplay ==
  /\ algo = "AStar" /\ pc = "home"
  /\ LET e == AStar_MoveAlong([Eng EXCEPT !.cmds = <<>>], ret, 1)
     IN /\ Commit(e)
        /\ pc' = IF e.exc = "none" THEN "replayed" ELSE "raised"
  /\ pre' = Snapshot
  /\ UNCHANGED <<algo, pass, paths, ffLocals, astarLocals, dfsLocals, ret,
                 cutVars, wireVars, fieldVars>>

\* dfs(): after path = dfs.run(debug=True), dfs.reset().
MainDFSReset ==
  /\ algo = "DFS" /\ pc = "done"
  /\ LET e == DFS_reset([Eng EXCEPT !.cmds = <<>>], paths, TRUE)
     IN /\ Commit(e)
        /\ pc' = IF e.exc = "none" THEN "home" ELSE "raised"
  /\ pre' = Snapshot
  /\ UNCHANGED <<algo, pass, paths, ffLocals, astarLocals, dfsLocals, ret,
                 cutVars, wireVars, fieldVars>>

\* dfs(): for point in path: dfs.move(point).
MainDFSReplay ==
  /\ algo = "DFS" /\ pc = "home"
  /\ LET e == DFS_MoveAlong([Eng EXCEPT !.cmds = <<>>], ret, 1)
     IN /\ Commit(e)
        /\ pc' = IF e.exc = "none" THEN "replayed" ELSE "raised"
  /\ pre' = Snapshot
  /\ UNCHANGED <<algo, pass, paths, ffLocals, astarLocals, dfsLocals, ret,
                 cutVars, wireVars, fieldVars>>

\* The three controllers: one pass of run, then reset and replay.
NextMain ==
  \/ MainFloodFillRun
  \/ (pass = 0 /\ AStarRunStart)
  \/ AStarRunStep
  \/ AStarRunReturnEmpty
  \/ MainAStarReset
  \/ MainAStarReplay
  \/ (pass = 0 /\ DFSRunStart)
  \/ DFSRunStep
  \/ DFSRunReturnEmpty
  \/ MainDFSReset
  \/ MainDFSReplay

SpecMain == (InitFloodFill \/ InitAStar \/ InitDFS) /\ [][NextMain]_vars

\* ------------------------------------------------------------ properties
NoDuplicates(s) == \A i, j \in 1 .. Len(s) : s[i] = s[j] => i = j

\* s is a subsequence of t: an increasing choice of positions of t spells s.
RECURSIVE IsSubsequence(_, _)
IsSubsequence(s, t) ==
  IF s = <<>> THEN TRUE
  ELSE IF t = <<>> THEN FALSE
  ELSE IF Head(s) = Head(t) THEN IsSubsequence(Tail(s), Tail(t))
  ELSE IsSubsequence(s, Tail(t))

FirstIndex(s, x) == CHOOSE k \in 1 .. Len(s) : s[k] = x /\ \A j \in 1 .. k - 1 : s[j] # x

LastIndex(s, x) == CHOOSE k \in 1 .. Len(s) : s[k] = x /\ \A j \in k + 1 .. Len(s) : s[j] # x

\* The procedure as the specification words it: keep the first remaining
\* cell and go on after its last occurrence.
RECURSIVE KeepFirstSkipToLast(_)
KeepFirstSkipToLast(s) ==
  IF s = <<>> THEN <<>>
  ELSE <<s[1]>> \o KeepFirstSkipToLast(SubSeq(s, LastIndex(s, s[1]) + 1, Len(s)))

IsTurn(c) == c \in {"turnLeft", "turnRight"}

DirFromTo(c, t) == CHOOSE d \in DIRECTIONS : t = Add(c, mapping(d))

Opposite(d) == ((d + 1) % 4) + 1

\* Some destination cell can be driven to from cell c in the physical maze.
GoalReachableFrom(c) == DestSet \cap ReachFrom(maze, {c}) # {}

\* C1: with truthful sensing and a goal cell reachable from the origin,
\* FloodFill.run does not fail, and when it has returned the robot stands
\* on the tracked cell, that cell has field value 0, and the registry
\* holds a non-empty path that ends on it.
C1_FloodFillRunReachesGoal ==
  (algo = "FloodFill" /\ truthful /\ GoalReachableFrom(Origin))
  => /\ pc # "raised"
     /\ (pc = "done" =>
           /\ flood[current] = 0
           /\ pos = current
           /\ steps # <<>>
           /\ \E k \in DOMAIN paths :
                paths[k] # <<>> /\ paths[k][Len(paths[k])] = current)

\* What a returned run of AStar or DFS owes its caller: a non-empty path
\* from the start cell to a destination cell, stored under its length.
ReturnedPathContract ==
  /\ ret # <<>>
  /\ ret[1] = pre.current
  /\ ret[Len(ret)] \in DestSet
  /\ Len(ret) \in DOMAIN paths
  /\ paths[Len(ret)] = ret

\* The case of C2 and C3: a run of the class, begun or ended, with truthful
\* sensing and a destination cell reachable from the cell it started on.
RunCase(class) ==
  /\ algo = class /\ truthful /\ pc \in {"run", "done", "raised"}
  /\ GoalReachableFrom(pre.current)

\* C2: with truthful sensing and a destination cell reachable from the
\* start, AStar.run raises nothing and what it returns is a non-empty
\* path from the start cell to a destination cell which the registry
\* holds under its length; it terminates, since every pass of its loop
\* that does not leave the loop closes one more node, of which there are
\* never more than cells.
C2_AStarRunReturnsPath ==
  /\ [](RunCase("AStar")
        => /\ pc # "raised"
           /\ Len(closed_list) <= self_w * self_h
           /\ (pc = "done" => ReturnedPathContract))
  /\ [][(RunCase("AStar") /\ pc = "run" /\ pc' = "run")
        => Len(closed_list') = Len(closed_list) + 1]_vars

C2_Witness ==
  /\ algo = "AStar" /\ truthful /\ pc = "done" /\ pass = 2
  /\ Cardinality(maze) = 2
  /\ Len(ret) > 3
  /\ ReturnedPathContract

\* C3: with truthful sensing and a destination cell reachable from the
\* start, DFS.run raises nothing and what it returns is a non-empty path
\* from the start cell to a destination cell which the registry holds
\* under its length; it terminates, since every pass of its loop that
\* does not leave the loop either visits a new cell or shortens the stack
\* without visiting one.
C3_DFSRunReturnsPath ==
  /\ [](RunCase("DFS")
        => /\ pc # "raised"
           /\ (pc = "done" => ReturnedPathContract))
  /\ [][(RunCase("DFS") /\ pc = "run" /\ pc' = "run")
        => \/ visited \subseteq visited' /\ visited' # visited
           \/ visited' = visited /\ Len(stack') < Len(stack)]_vars

C3_Witness ==
  /\ algo = "DFS" /\ truthful /\ pc = "done" /\ pass = 2
  /\ Cardinality(maze) = 2
  /\ Len(ret) > 3
  /\ ReturnedPathContract

\* C5: once the capability has answered a moveForward with a crash, the
\* call in progress (run or reset) has ended with MouseCrashedError; the
\* crash is the answer to the last command issued, so there was no retry
\* and no later turn, forward or sensing command; the tracked cell is not
\* the target of the move; the registry is what it was when the call began.
C5_CrashIsFatalToThePass ==
  InSeq("crash", cmds)
  => /\ exc = "MouseCrashedError"
     /\ pc = "raised"
     /\ Index(cmds, "crash") = Len(cmds)
     /\ cmds[Len(cmds) - 1] = "moveForward"
     /\ current # arg
     /\ paths = pre.paths

C5_Witness ==
  /\ algo = "AStar" /\ pc = "raised" /\ exc = "MouseCrashedError"
  /\ Len(cmds) > 8
  /\ cmds[Len(cmds)] = "crash"
  /\ closed_list # <<>>

\* C11: no assignment made by floodfill_all lowers the value of a cell,
\* and so no step of an exploration, in any pass, leaves a cell with a
\* smaller field value than it had.
C11_FloodNeverDecreases ==
  /\ [](~lowered)
  /\ [][\A c \in Cells : flood'[c] >= flood[c]]_vars

C11_Witness ==
  /\ algo = "FloodFill" /\ truthful /\ pc = "run" /\ exc = "none"
  /\ floods > 1
  /\ \E c \in Cells : flood[c] > InitialFlood[c] + 1

\* A step of reset: the caller stood after a pass.
ResetStep == pc = "done" /\ pc' \in {"idle", "raised"}

\* C12: no step of any strategy (sensing, moving, run, reset) removes a
\* (cell, blocked neighbor) pair from the wall model, and a reset leaves
\* the wall model, the flood field and the path registry as they were.
C12_KnowledgeNeverRegresses ==
  [][/\ \A c \in Cells : \A k \in 1 .. Len(walls[c]) :
          InSeq(walls[c][k], walls'[c])
     /\ (ResetStep =>
           walls' = walls /\ flood' = flood /\ paths' = paths)]_vars

C12_Witness ==
  /\ algo = "FloodFill" /\ pc = "idle" /\ pass = 1
  /\ \E c \in Cells : Len(walls[c]) >= 2
  /\ flood # InitialFlood
  /\ DOMAIN paths # {}

\* C13: for every strategy, update_walls on a cell that already has a
\* recorded blocked neighbor leaves the wall model as it was, whatever
\* the sensors answer.
C13_SensedCellIsFrozen ==
  (pc = "sensed" /\ pre.walls[pre.current] # <<>>) => walls = pre.walls

\* C14: when reset has completed, in either mode and after any pass, the
\* tracked cell is the origin and the tracked orientation is East.
C14_ResetEndsAtOriginEast ==
  (pc = "idle" /\ pass >= 1) => (current = Origin /\ orient = EAST)

\* C15: with truthful sensing and a reachable goal, the controller of
\* every strategy ends by replaying from the origin the registry path
\* under the minimum key; the replay issues only turn and forward
\* commands, ends on the last cell of that path and leaves the wall model
\* and the flood field as they were.
C15_ControllerReplaysBestPath ==
  (truthful /\ GoalReachableFrom(Origin) /\ pc \in {"replayed", "raised"})
  => /\ pc = "replayed"
     /\ DOMAIN paths # {}
     /\ ret = paths[MinKey(paths)]
     /\ pre.current = Origin
     /\ \A k \in 1 .. Len(cmds) :
          cmds[k] \in {"turnLeft", "turnRight", "moveForward"}
     /\ Len(SelectSeq(cmds, LAMBDA c : c = "moveForward")) = Len(ret) - 1
     /\ current = ret[Len(ret)] /\ pos = current
     /\ walls = pre.walls /\ flood = pre.flood

\* The step in which a run stores the path new in the registry.
StoresPath(new) ==
  /\ DOMAIN paths' = DOMAIN paths \cup {Len(new)}
  /\ paths'[Len(new)] = new
  /\ \A k \in DOMAIN paths \ {Len(new)} : paths'[k] = paths[k]

\* C16: every key k of the registry maps to a path of length k, so the
\* path under the minimum key is no longer than any other; the step that
\* ends a pass with a path stores that path under its length and leaves
\* the entries under other keys as they were, and no other step changes
\* the registry.
C16_RegistryKeyedByLength ==
  /\ [](/\ \A k \in DOMAIN paths : Len(paths[k]) = k
        /\ \A k \in DOMAIN paths : Len(paths[MinKey(paths)]) <= Len(paths[k]))
  /\ [][IF pc = "run" /\ pc' = "done" /\ algo = "FloodFill"
          THEN StoresPath(cut_redundant_steps(steps))
        ELSE IF pc = "run" /\ pc' = "done" /\ ret' # <<>>
          THEN StoresPath(ret')
        ELSE paths' = paths]_vars

C16_Witness ==
  /\ pc = "done" /\ pass = 2
  /\ Cardinality(DOMAIN paths) = 2

\* A stripped line that is an optional sign followed by digits only.
IsDecimal(s) ==
  LET body == IF s # <<>> /\ Head(s) \in {"+", "-"} THEN Tail(s) ELSE s
  IN body # <<>> /\ \A k \in 1 .. Len(body) : InSeq(body[k], Digits)

\* C17: a response that is not of the declared type fails the call: for
\* a bool command every response but true and false raises, and for an
\* int command every response that is not a decimal number raises.
C17_UnparsableResponseIsFatal ==
  pc = "answered"
  => /\ ((return_type = "bool"
          /\ strip(line) \notin {<<"t", "r", "u", "e">>,
                                 <<"f", "a", "l", "s", "e">>})
         => reply.exc # "none")
     /\ ((return_type = "int" /\ ~IsDecimal(strip(line)))
         => reply.exc # "none")

\* The rows of the grid on which the centre region lies (1-based): the two
\* middle ones of an even size, the middle one of an odd size.
Centre(n) == {(n + 1) \div 2, (n + 2) \div 2}

FieldContract(m, a, b) ==
  /\ Len(m) = b
  /\ \A r \in 1 .. Len(m) :
       /\ Len(m[r]) = a
       /\ \A c \in 1 .. Len(m[r]) :
            /\ m[r][c] \in Nat
            /\ m[r][c] = m[r][Len(m[r]) + 1 - c]
            /\ m[r][c] = m[Len(m) + 1 - r][c]
            /\ (m[r][c] = 0) <=> (r \in Centre(b) /\ c \in Centre(a))
            /\ m[r][c] <= m[1][1]

\* C18: for a grid of width w and height h the field built by
\* generate_flood_matrix has h rows of w naturals, is its own mirror image
\* left-right and top-bottom, is 0 on the centre region and nowhere else,
\* and is nowhere larger than at its corners.
C18_FieldShapeAndSymmetry ==
  (algo = "FloodFill" /\ pc = "constructed")
    => FieldContract(matrix, self_w, self_h)

\* The mouse of a classic maze: sixteen cells a side.
Classic == algo = "FloodFill" /\ self_w = 16 /\ self_h = 16

\* C19: on a 16x16 grid the field is 0 on (7,7), (7,8), (8,7), (8,8), and
\* with no wall sensed the first decision at the origin, facing East, is
\* a neighbor of the origin whose value is strictly smaller than the
\* origin's, taken without raising any value of the field.
C19_FirstStepDescends ==
  /\ (Classic /\ pc \in {"constructed", "decided"})
       => \A c \in {<<7, 7>>, <<7, 8>>, <<8, 7>>, <<8, 8>>} :
            /\ matrix[c[1] + 1][c[2] + 1] = 0
            /\ flood[c] = 0
  /\ (Classic /\ pc = "decided")
       => /\ exc = "none"
          /\ InSeq(next, neighbors(Origin))
          /\ flood[next] < flood[Origin]
          /\ floods = 0
          /\ flood = pre.flood

C19_Witness ==
  /\ Classic /\ pc = "decided"
  /\ walls = NoWalls
  /\ orient = EAST /\ current = Origin
  /\ next = <<0, 1>>
  /\ flood[Origin] = 14 /\ flood[next] = 13

\* C20: as long as the capability has answered no moveForward with a
\* crash, the tracked cell and orientation are the cell and orientation
\* the robot has reached by the turn and forward commands issued; this
\* after every step of run and after every reset of every strategy.
C20_PoseConsistency ==
  ~InSeq("crash", cmds) => (current = pos /\ orient = face)

\* C21: with truthful sensors no strategy, in any pass, before or after a
\* reset, issues a moveForward that the capability answers with a crash:
\* every moveForward issued moved the robot, and no call ended with
\* MouseCrashedError.
C21_TruthfulSensorsNeverCrash ==
  truthful => (~InSeq("crash", cmds) /\ exc # "MouseCrashedError")

\* A second pass, begun after a reset, has driven the robot forward in a
\* maze with walls.
C21_Witness ==
  /\ truthful /\ maze # {}
  /\ pass = 2 /\ pc = "run"
  /\ InSeq("moveForward", cmds)

\* Every cell of non-zero value holds one more than the least value among
\* its neighbors not recorded as blocked from it.
FloodStable ==
  \A c \in Cells :
    flood[c] # 0
      => /\ OpenNeighbors(walls, c) # <<>>
         /\ flood[c] = 1 + MinOver(flood, OpenNeighbors(walls, c), 1)

\* C22: after a step of run in which floodfill_all has raised a value and
\* returned, the field is stable (neither the walls nor the field change
\* between the return of floodfill_all and the end of the step).
C22_FloodStableAfterReflood ==
  (algo = "FloodFill" /\ pc = "run" /\ exc = "none" /\ floods > 0)
    => FloodStable

\* The ancestor chains of the node popped before (last) and of the node
\* the next pass of the loop pops (next), each from the node up to the root.
Chains ==
  IF algo = "AStar"
  THEN [last |-> NodePath(nodes, last_node),
        next |-> NodePath(nodes, heappop(open_list, nodes)[1])]
  ELSE [last |-> ParentPath(parent, current),
        next |-> ParentPath(parent, stack[Len(stack)])]

FrontierHolds ==
  /\ algo \in {"AStar", "DFS"} /\ pc = "run"
  /\ IF algo = "AStar" THEN open_list # <<>> ELSE stack # <<>>

\* Where last's chain first meets next's chain, and where on next's chain.
MeetUp(last_chain, next_chain) ==
  CHOOSE k \in 1 .. Len(last_chain) :
    /\ InSeq(last_chain[k], next_chain)
    /\ \A j \in 1 .. k - 1 : ~InSeq(last_chain[j], next_chain)

MeetDown(last_chain, next_chain) ==
  Index(next_chain, last_chain[MeetUp(last_chain, next_chain)])

\* last's chain up to the common cell, then next's chain down from it.
UpThenDown(last_chain, next_chain) ==
  SubSeq(last_chain, 1, MeetUp(last_chain, next_chain))
  \o [k \in 1 .. MeetDown(last_chain, next_chain) |->
        next_chain[MeetDown(last_chain, next_chain) + 1 - k]]

Forwards(c) == Len(SelectSeq(c, LAMBDA x : x = "moveForward"))

Strides(path) == Cardinality({k \in 1 .. Len(path) - 1 : path[k] # path[k + 1]})

\* C23: in every pass of the loop of AStar.run and DFS.run, last's chain
\* starts on the robot's cell and meets next's chain; the cells replayed
\* are last's chain up to the first common cell followed by next's chain
\* from that cell down to next; consecutive distinct cells of it are
\* 4-adjacent; and a replay that ends without an exception has driven the
\* robot one cell forward per stride and left the tracked cell, and the
\* robot, on next's cell.
C23_ReplayClimbsThenDescends ==
  [][FrontierHolds =>
       LET last_chain == Chains.last
           next_chain == Chains.next
           path == UpThenDown(last_chain, next_chain)
       IN /\ last_chain[1] = current
          /\ \E k \in 1 .. Len(last_chain) : InSeq(last_chain[k], next_chain)
          /\ Stitch(last_chain, next_chain) = [exc |-> "none", path |-> path]
          /\ \A k \in 1 .. Len(path) - 1 :
               path[k] # path[k + 1] => Adjacent(path[k], path[k + 1])
          /\ path[Len(path)] = next_chain[1]
          /\ exc' = "none"
               => /\ current' = next_chain[1]
                  /\ pos' = next_chain[1]
                  /\ Forwards(cmds') - Forwards(cmds) = Strides(path)]_vars

\* A pass of the loop is about to climb at least one cell up last's chain
\* and descend at least one cell down next's, after earlier replays.
C23_Witness ==
  /\ FrontierHolds /\ exc = "none"
  /\ Forwards(cmds) > 0
  /\ MeetUp(Chains.last, Chains.next) > 1
  /\ MeetDown(Chains.last, Chains.next) > 1

\* A step of FloodFill.run in which find_cell has returned a cell (the
\* move that follows changes neither the walls nor the field).
FindCellReturns ==
  /\ algo = "FloodFill" /\ pc = "run" /\ flood[current] # 0
  /\ exc' \in {"none", "MouseCrashedError"}

\* C24: the cell find_cell returns for the current cell is a neighbor of
\* it that is not recorded as blocked from it, and when find_cell returns
\* no neighbor that is not recorded as blocked holds a smaller value.
C24_FindCellReturnsOpenMinimum ==
  [][FindCellReturns =>
       /\ InSeq(next', neighbors(current))
       /\ ~InSeq(next', walls'[current])
       /\ flood'[next'] = MinOver(flood', OpenNeighbors(walls', current), 1)]_vars

\* The neighbor find_cell chooses first, with nothing ignored: a neighbor
\* of least value, the one straight ahead when there is one.
FirstChoice(e, cell) ==
  LET nbrs == neighbors(e.current)
      m == MinOver(e.flood, nbrs, 1)
      indices == SelectSeq([k \in 1 .. Len(nbrs) |-> k],
                           LAMBDA k : e.flood[nbrs[k]] = m)
      check == SelectSeq(indices,
                         LAMBDA k : Sub(nbrs[k], cell) = mapping(e.orient))
  IN nbrs[IF check # <<>> THEN check[1] ELSE indices[1]]

\* The first choice is not recorded as blocked and does not improve on the
\* value of the cell.
Stalled(e, cell) ==
  /\ ~InSeq(FirstChoice(e, cell), e.walls[cell])
  /\ e.flood[cell] <= e.flood[FirstChoice(e, cell)]

\* C25: when the neighbor find_cell chooses is not recorded as blocked and
\* its value is not smaller than the value of the cell, find_cell floods
\* again from the cell and returns another neighbor.
C25_StalledChoiceIsNotReturned ==
  [][FindCellReturns =>
       LET e == FF_update_walls([Eng EXCEPT !.floods = 0])
       IN Stalled(e, current)
            => (floods' > 0 /\ next' # FirstChoice(e, current))]_vars

\* The path starts on the origin or beside it.
StartsAtOrigin(path) ==
  path # <<>> /\ (path[1] = Origin \/ Adjacent(Origin, path[1]))

\* Consecutive cells of the path are 4-adjacent.
Connected(path) ==
  \A k \in 1 .. Len(path) - 1 : Adjacent(path[k], path[k + 1])

\* No step of the path leaves a cell for a neighbor recorded as blocked
\* from that cell; the step from the origin to the first cell counts.
Unblocked(path) ==
  LET way == IF path # <<>> /\ path[1] # Origin THEN <<Origin>> \o path ELSE path
  IN \A k \in 1 .. Len(way) - 1 : ~InSeq(way[k + 1], walls[way[k]])

\* C26: every stored path can be replayed from the origin: it starts on
\* the origin or beside it, its consecutive cells are 4-adjacent, and no
\* step of it is recorded as blocked.
C26_StoredPathsReplayable ==
  \A k \in DOMAIN paths :
    StartsAtOrigin(paths[k]) /\ Connected(paths[k]) /\ Unblocked(paths[k])

\* C27: every cell recorded in the list of blocked neighbors of a cell lies
\* in the grid, is 4-adjacent to that cell, and stands once in the list.
C27_WallModelInvariant ==
  \A c \in Cells :
    \A k \in 1 .. Len(walls[c]) :
      /\ InBounds(walls[c][k])
      /\ Adjacent(c, walls[c][k])
      /\ \A j \in 1 .. Len(walls[c]) : walls[c][j] = walls[c][k] => j = k

\* The second pass of FloodFill has sensed again at the origin, where a
\* blocked neighbor is recorded, and has moved on.
C27_Witness ==
  /\ algo = "FloodFill" /\ pass = 2 /\ pc = "run"
  /\ steps # <<>> /\ walls[Origin] # <<>>

\* The cells of value 0 in a field.
ZeroCells(fl) == {c \in Cells : fl[c] = 0}

\* C28: while FloodFill explores, over any number of passes, the cells of
\* value 0 are the cells of value 0 of the initial field: floodfill_all
\* neither raises such a cell nor makes another one.
C28_GoalCellsFixed ==
  algo = "FloodFill" => ZeroCells(flood) = ZeroCells(InitialFlood)

\* floodfill_all has raised a cell beside a cell of value 0, which is
\* recorded as blocked from it.
C28_Witness ==
  /\ algo = "FloodFill"
  /\ \E c \in Cells :
       /\ flood[c] > InitialFlood[c]
       /\ \E k \in 1 .. Len(walls[c]) : flood[walls[c][k]] = 0

\* A pass of the loop of DFS.run: it pops the top of the stack.
DFSPops == algo = "DFS" /\ pc = "run" /\ stack # <<>>

\* C29: in DFS.run a cell is pushed onto the stack at most once, and is
\* popped and expanded at most once: the cell popped was never popped
\* before, and after the pushes no cell stands twice on the stack.
C29_DFSPushesAndPopsOnce ==
  [][DFSPops => (stack[Len(stack)] \notin visited /\ NoDuplicates(stack'))]_vars

\* The positions of the nodes a list names.
PositionsOf(list) == [k \in 1 .. Len(list) |-> nodes[list[k]].position]

\* C30: in AStar.run a position is pushed onto the open list at most once
\* and popped and expanded at most once: no two of the nodes pushed so far
\* (nodes holds each of them) and no two of the nodes popped so far
\* (closed_list) have the same position.
C30_AStarPushesAndPopsOnce ==
  algo = "AStar"
    => /\ NoDuplicates([k \in 1 .. Len(nodes) |-> nodes[k].position])
       /\ NoDuplicates(PositionsOf(closed_list))
       /\ \A k \in 1 .. Len(open_list) :
            ~InSeq(nodes[open_list[k]].position, PositionsOf(closed_list))

\* The position of a node pushed is a neighbor, not recorded as blocked, of
\* two nodes expanded so far: the later expansion met it on the open list
\* or on the closed list, and the search goes on.
C30_Witness ==
  /\ algo = "AStar" /\ pc = "run" /\ open_list # <<>>
  /\ \E k \in 1 .. Len(nodes) :
       \E i, j \in 1 .. Len(closed_list) :
         /\ i < j
         /\ \A n \in {closed_list[i], closed_list[j]} :
              /\ Adjacent(nodes[n].position, nodes[k].position)
              /\ ~InSeq(nodes[k].position, walls[nodes[n].position])

\* A quarter turn of a direction vector, rows growing to the south and
\* columns to the east.
CounterClockwise(v) == <<-v[2], v[1]>>

Clockwise(v) == <<v[2], -v[1]>>

\* The cells update_walls is to record at cell c, facing o, for the three
\* readings: the in-bounds neighbors on the sides whose reading is true.
Sensed(c, o, left, front, right) ==
  ((IF left THEN {Add(c, CounterClockwise(mapping(o)))} ELSE {})
     \cup (IF front THEN {Add(c, mapping(o))} ELSE {})
     \cup (IF right THEN {Add(c, Clockwise(mapping(o)))} ELSE {}))
  \cap Cells

\* C31: update_walls on a cell without recorded entries adds to the list
\* of that cell exactly the in-bounds neighbors to the left of, ahead of
\* and to the right of the tracked facing whose reading is true, each
\* once, and changes the list of no other cell.
C31_SensingRecordsOneWay ==
  (pc = "sensed" /\ pre.walls[pre.current] = <<>>)
    => /\ {walls[pre.current][k] : k \in 1 .. Len(walls[pre.current])}
            = Sensed(pre.current, pre.orient,
                     PhysWall(maze, pre.pos, LeftOf(pre.face)),
                     PhysWall(maze, pre.pos, pre.face),
                     PhysWall(maze, pre.pos, RightOf(pre.face)))
       /\ NoDuplicates(walls[pre.current])
       /\ \A c \in Cells \ {pre.current} : walls[c] = pre.walls[c]

\* A sensing beside the boundary that recorded a wall inside the maze.
C31_Witness ==
  /\ pc = "sensed" /\ pre.walls[pre.current] = <<>>
  /\ walls[current] # <<>>
  /\ \E d \in DIRECTIONS \ {Opposite(pre.face)} :
       ~InBounds(Add(current, mapping(d)))

\* The three wall queries of one update_walls stand at k .. k + 2.
QueriesAt(c, k) ==
  /\ k >= 1 /\ k + 2 <= Len(c)
  /\ SubSeq(c, k, k + 2) = <<"wallLeft", "wallRight", "wallFront">>

\* The command at k is a move_forward that did not crash.
MovedAt(c, k) ==
  /\ c[k] = "moveForward"
  /\ (k < Len(c) => c[k + 1] # "crash")

\* The cell the robot stands on after the first k commands of c, from
\* the cell and facing it had before them.
RECURSIVE PoseAfter(_, _, _, _)
PoseAfter(cell, facing, c, k) ==
  IF k = 0 THEN <<cell, facing>>
  ELSE LET was == PoseAfter(cell, facing, c, k - 1)
       IN CASE c[k] = "turnLeft" -> <<was[1], LeftOf(was[2])>>
            [] c[k] = "turnRight" -> <<was[1], RightOf(was[2])>>
            [] MovedAt(c, k) -> <<Add(was[1], mapping(was[2])), was[2]>>
            [] OTHER -> was

\* FloodFill.run: before every move_forward stand the queries of an
\* update_walls, with nothing but turns between them and the move.
SensedBeforeEachMove(c) ==
  \A k \in 1 .. Len(c) :
    c[k] = "moveForward"
      => \E j \in 1 .. k - 1 :
           /\ QueriesAt(c, j - 2)
           /\ \A i \in j + 1 .. k - 1 : IsTurn(c[i])

\* AStar.run, DFS.run: update_walls follows every move_forward that
\* arrived: its queries stand right after the move, unless the cell
\* arrived at has recorded entries, where update_walls returns at once.
SensedAfterEachMove(c, wl, start) ==
  \A k \in 1 .. Len(c) :
    MovedAt(c, k)
      => \/ QueriesAt(c, k + 1)
         \/ wl[PoseAfter(start.pos, start.face, c, k)[1]] # <<>>

C33_StoredPathAvoidsOrigin ==
  algo = "FloodFill"
    => \A k \in DOMAIN paths :
         /\ ~InSeq(Origin, paths[k])
         /\ NoDuplicates(<<Origin>> \o paths[k])

\* Every two consecutive cells of out are two consecutive cells of inp.
StepsOf(out, inp) ==
  \A k \in 1 .. Len(out) - 1 :
    \E j \in 1 .. Len(inp) - 1 : inp[j] = out[k] /\ inp[j + 1] = out[k + 1]

\* C34: for a non-empty list whose consecutive cells are 4-adjacent,
\* cut_redundant_steps returns a list that starts with the first cell of
\* the input, ends with its last cell, and steps only where the input
\* stepped (so its consecutive cells are 4-adjacent too).
C34_CutPreservesWalk ==
  (Len(cutRes) >= 1 /\ cutArg # <<>> /\ Connected(cutArg))
    => /\ cutRes[1] # <<>>
       /\ cutRes[1][1] = cutArg[1]
       /\ cutRes[1][Len(cutRes[1])] = cutArg[Len(cutArg)]
       /\ StepsOf(cutRes[1], cutArg)
       /\ Connected(cutRes[1])

\* A walk of MaxLen cells with a loop in it, cut to a shorter walk of
\* more than two cells.
C34_Witness ==
  /\ Len(cutRes) >= 1 /\ Len(cutArg) = MaxLen /\ Connected(cutArg)
  /\ Len(cutRes[1]) >= 3 /\ Len(cutRes[1]) < Len(cutArg)

\* The neighbor find_cell chooses among those outside ignore.
Choice(e, cell, ignore) ==
  LET nbrs == SelectSeq(neighbors(e.current), LAMBDA i : i \notin ignore)
      m == MinOver(e.flood, nbrs, 1)
      indices == SelectSeq([k \in 1 .. Len(nbrs) |-> k],
                           LAMBDA k : e.flood[nbrs[k]] = m)
      check == SelectSeq(indices,
                         LAMBDA k : Sub(nbrs[k], cell) = mapping(e.orient))
  IN nbrs[IF check # <<>> THEN check[1] ELSE indices[1]]

\* The calls of floodfill_all that one find_cell makes: the largest number
\* of cells raised within one call, and whether every call came to an end.
RECURSIVE Refloods(_, _, _)
Refloods(e, cell, ignore) ==
  IF e.exc # "none"
       \/ SelectSeq(neighbors(e.current), LAMBDA i : i \notin ignore) = <<>>
  THEN [most |-> 0, ended |-> TRUE]
  ELSE LET next_cell == Choice(e, cell, ignore)
           call == floodfill_all([e EXCEPT !.floods = 0], cell)
       IN IF ~InSeq(next_cell, e.walls[cell])
          THEN IF e.flood[cell] <= e.flood[next_cell]
               THEN [most |-> call.floods, ended |-> call.exc # "Unbounded"]
               ELSE [most |-> 0, ended |-> TRUE]
          ELSE LET rest == Refloods(call, cell, ignore \cup {next_cell})
               IN [most |-> IF call.floods > rest.most
                            THEN call.floods ELSE rest.most,
                   ended |-> call.exc # "Unbounded" /\ rest.ended]

\* FloodFill.run is about to sense and decide on a cell of a maze in
\* which a goal cell can be reached from the start.
Deciding ==
  /\ algo = "FloodFill" /\ pc = "run" /\ flood[current] # 0
  /\ truthful /\ GoalReachableFrom(Origin)

\* C35: in a maze with a reachable goal every call of floodfill_all comes
\* to an end, having raised cells at most width * height times.
C35_RefloodEndsWithinCells ==
  Deciding
    => LET r == Refloods(FF_update_walls(Eng), current, {})
       IN r.ended /\ r.most <= self_w * self_h

\* C36: while FloodFill explores a maze with a reachable goal, every value
\* of the field lies between 0 and width * height.
C36_FieldValuesBounded ==
  (algo = "FloodFill" /\ truthful /\ GoalReachableFrom(Origin))
    => \A c \in Cells : flood[c] \in 0 .. self_w * self_h

\* The place of a neighbor of cur in the scan order of neighbors.
ScanRank(cur, n) ==
  CHOOSE k \in 1 .. Len(neighbors(cur)) : neighbors(cur)[k] = n

\* The neighbors of cur outside ignore that hold the least value among
\* them.
Least(fl, cur, ignore) ==
  LET cands == {neighbors(cur)[k] : k \in DOMAIN neighbors(cur)} \ ignore
  IN {n \in cands : \A o \in cands : fl[n] <= fl[o]}

\* The rule of the tie-break: the cell straight ahead when it holds the
\* least value, else the earliest in scan order of those that do.
TieBreak(fl, cur, o, ignore) ==
  LET least == Least(fl, cur, ignore)
      ahead == Add(cur, mapping(o))
  IN IF ahead \in least THEN ahead
     ELSE CHOOSE n \in least :
            \A m \in least : ScanRank(cur, n) <= ScanRank(cur, m)

\* The cell the rule settles on: a choice recorded as blocked is ignored
\* after the field is flooded from the cell, and the rule applies again.
RECURSIVE Settles(_, _, _)
Settles(e, cell, ignore) ==
  IF e.exc # "none" \/ Least(e.flood, cell, ignore) = {} THEN <<>>
  ELSE LET c == TieBreak(e.flood, cell, e.orient, ignore)
       IN IF ~InSeq(c, e.walls[cell]) THEN c
          ELSE Settles(floodfill_all(e, cell), cell, ignore \cup {c})

\* C38: among the neighbors of the current cell outside the ignore set
\* that share the minimum value, find_cell chooses the one straight ahead
\* in the tracked orientation if it is one of them, else the first of them
\* in scan order; the cell it returns is the first such choice that is not
\* recorded as blocked.
C38_TieBreakStraightAheadThenScanOrder ==
  [][FindCellReturns
       => next' = Settles(FF_update_walls(Eng), current, {})]_vars

\* FloodFill.run is about to decide on a cell where the minimum is shared
\* and the cell straight ahead is one of the least but not the first of
\* them in scan order.
C38_Witness ==
  /\ algo = "FloodFill" /\ pc = "run" /\ flood[current] # 0 /\ exc = "none"
  /\ LET e == FF_update_walls(Eng)
         least == Least(e.flood, current, {})
         ahead == Add(current, mapping(e.orient))
     IN /\ e.exc = "none"
        /\ Cardinality(least) >= 2
        /\ ahead \in least
        /\ \E n \in least : ScanRank(current, n) < ScanRank(current, ahead)
        /\ ~InSeq(ahead, e.walls[current])

\* The cells reached from the cells S by steps that are not recorded as
\* blocked from the cell they leave.
RECURSIVE OpenFrom(_, _)
OpenFrom(wl, S) ==
  LET T == S \cup {n \in Cells :
                     \E c \in S : Adjacent(c, n) /\ ~InSeq(n, wl[c])}
  IN IF T = S THEN S ELSE OpenFrom(wl, T)

\* No destination can be reached from the cell the run started on.
Sealed(wl) == DestSet \cap OpenFrom(wl, {pre.current}) = {}

Searching == algo \in {"AStar", "DFS"} /\ pc = "run"

Frontier == IF algo = "DFS" THEN stack ELSE open_list

\* The entries of the DFS stack that are visited cells.
Stale(stk, vis) == Cardinality({k \in DOMAIN stk : stk[k] \in vis})

\* A pass of the loop brings the search nearer its end: AStar closes one
\* more position, of which there are no more than cells; DFS visits a new
\* cell or else drops a stale entry of the stack.
Advances ==
  IF algo = "DFS"
  THEN \/ Cardinality(visited') > Cardinality(visited)
       \/ visited' = visited /\ Stale(stack', visited') < Stale(stack, visited)
  ELSE /\ Len(closed_list') = Len(closed_list) + 1
       /\ Len(closed_list') <= Cardinality(Cells)

\* C39: when no destination can be reached from the start through edges
\* not recorded as blocked, AStar.run and DFS.run raise nothing, come to
\* an end (every pass of the loop advances) and end with the frontier
\* empty, returning the empty path and leaving the registry of paths as
\* it was; once the destinations are sealed off the run records no
\* further wall.
C39_SealedSearchReturnsEmpty ==
  /\ [][(Searching /\ Sealed(walls')) => pc' # "raised"]_vars
  /\ [][(Searching /\ Sealed(walls)) => walls' = walls]_vars
  /\ [][(Searching /\ pc' = "done" /\ Sealed(walls'))
         => Frontier = <<>> /\ ret' = <<>> /\ paths' = paths]_vars
  /\ [][(Searching /\ Frontier = <<>>) => Sealed(walls)]_vars
  /\ [][(Searching /\ Frontier # <<>> /\ Sealed(walls')) => Advances]_vars

\* A run that has given up after driving around the sealed goal block: it
\* has returned the empty path with every cell outside the block visited.
C39_Witness ==
  /\ algo \in {"AStar", "DFS"} /\ pc = "done" /\ pass = 1
  /\ Sealed(walls) /\ ret = <<>> /\ paths = <<>>
  /\ Forwards(cmds) >= Cardinality(Cells \ DestSet) - 1

\* The cells met by following at most n parent links of DFS.run from c.
RECURSIVE Climb(_, _, _)
Climb(par, c, n) ==
  IF c = <<>> \/ n = 0 THEN <<>> ELSE <<c>> \o Climb(par, par[c], n - 1)

\* A walk up the parent links: it ends at the start cell, meets no cell
\* twice and every link joins adjacent cells.
ClimbsToStart(up, start) ==
  /\ up # <<>> /\ up[Len(up)] = start
  /\ NoDuplicates(up)
  /\ \A k \in 1 .. Len(up) - 1 : Adjacent(up[k], up[k + 1])

\* The cells AStar.run has recorded as parent of the cell c (<<>>: none).
ParentsOf(ns, c) ==
  {IF ns[i].parent = 0 THEN <<>> ELSE ns[ns[i].parent].position :
     i \in {j \in DOMAIN ns : ns[j].position = c}}

InSearch == algo \in {"AStar", "DFS"} /\ pc \in {"run", "done"} /\ pass > 0

\* C37: during AStar.run and DFS.run the parent links form a tree rooted at
\* the start cell: from every cell enqueued the links lead to the start
\* cell without meeting a cell twice, every link joins adjacent cells, and
\* the parent of a cell that has been expanded does not change.
C37_ParentLinksFormTree ==
  /\ [](InSearch =>
          IF algo = "DFS"
          THEN \A c \in visited \cup {stack[k] : k \in DOMAIN stack} :
                 ClimbsToStart(Climb(parent, c, self_w * self_h + 1),
                               pre.current)
          ELSE \A i \in DOMAIN nodes :
                 /\ ClimbsToStart(NodePath(nodes, i), pre.current)
                 /\ Cardinality(ParentsOf(nodes, nodes[i].position)) = 1)
  /\ [][(InSearch /\ pc = "run") =>
          IF algo = "DFS"
          THEN \A c \in visited : parent'[c] = parent[c]
          ELSE \A k \in DOMAIN closed_list :
                 LET c == nodes[closed_list[k]].position
                 IN ParentsOf(nodes', c) = ParentsOf(nodes, c)]_vars

\* A search three links deep: a DFS stack that holds a cell twice, whose
\* parent was set again before it was expanded, or an AStar node two
\* links below the start whose cell neighbors another closed cell.
C37_Witness ==
  /\ InSearch /\ pc = "run"
  /\ IF algo = "DFS"
     THEN /\ \E i, j \in DOMAIN stack : i < j /\ stack[i] = stack[j]
          /\ \E c \in visited : Len(Climb(parent, c, self_w * self_h + 1)) >= 4
     ELSE \E i \in DOMAIN nodes :
            /\ Len(NodePath(nodes, i)) >= 3
            /\ \E k \in DOMAIN closed_list :
                 /\ closed_list[k] # nodes[i].parent
                 /\ Adjacent(nodes[closed_list[k]].position, nodes[i].position)

MoveReturned == pc = "moved"

\* C4: move to a 4-adjacent in-bounds cell that is not recorded as blocked
\* issues 0 turns when the cell is ahead, 1 when it is to a side, 2 left
\* turns when it is behind, then one moveForward; on return the tracked
\* cell is the target and the tracked (and physical) orientation is the
\* direction travelled.  From (1,1) facing East to (1,0): two turns, one
\* forward, facing West.
C4_MoveTurnsThenForward ==
  (/\ MoveReturned
   /\ InBounds(arg)
   /\ Adjacent(pre.current, arg)
   /\ ~InSeq(arg, pre.walls[pre.current]))
  => LET d == DirFromTo(pre.current, arg)
         n == IF d = pre.orient THEN 0
              ELSE IF d = Opposite(pre.orient) THEN 2 ELSE 1
         issued == SelectSeq(cmds, LAMBDA c : c # "crash")
     IN /\ Len(issued) = n + 1
        /\ \A k \in 1 .. n : IsTurn(issued[k])
        /\ issued[n + 1] = "moveForward"
        /\ (n = 2 => issued[1] = "turnLeft" /\ issued[2] = "turnLeft")
        /\ (exc = "none" =>
              current = arg /\ orient = d /\ pos = arg /\ face = d)
        /\ ((pre.current = <<1, 1>> /\ pre.orient = EAST /\ arg = <<1, 0>>) =>
              /\ issued = <<"turnLeft", "turnLeft", "moveForward">>
              /\ (exc = "none" => orient = WEST))

C4_Witness ==
  /\ MoveReturned /\ exc = "none"
  /\ pre.current = <<1, 1>> /\ pre.orient = EAST /\ arg = <<1, 0>>
  /\ cmds = <<"turnLeft", "turnLeft", "moveForward">>
  /\ current = <<1, 0>> /\ orient = WEST

MoveWasNoOp ==
  /\ cmds = <<>>
  /\ exc = "none"
  /\ current = pre.current
  /\ orient = pre.orient

\* C6: for every strategy, move to a neighbor recorded as blocked from the
\* current cell issues no command, raises nothing and leaves the tracked
\* cell and orientation as they were.
C6_BlockedTargetIsNoOp ==
  (MoveReturned /\ InSeq(arg, pre.walls[pre.current])) => MoveWasNoOp

\* C7: for every strategy, move to a cell that is neither the current
\* cell nor 4-adjacent to it fails (IndexError) before any command is
\* issued, with the tracked cell and orientation unchanged.
C7_NonAdjacentTargetIsFatal ==
  (MoveReturned /\ arg # pre.current /\ ~Adjacent(pre.current, arg))
  => /\ exc = "IndexError"
     /\ cmds = <<>>
     /\ current = pre.current /\ orient = pre.orient
     /\ pos = pre.pos /\ face = pre.face

C7_Witness ==
  /\ MoveReturned /\ exc = "IndexError"
  /\ pre.current = <<1, 1>> /\ arg = <<2, 2>> /\ algo = "DFS"

\* C8: for every strategy, move to the current cell issues no command,
\* raises nothing and leaves the tracked cell and orientation as they
\* were.
C8_SameCellIsNoOp ==
  (MoveReturned /\ arg = pre.current) => MoveWasNoOp

\* C9 as stated: the result is the keep-first-skip-to-last list, holds no
\* cell twice, is a subsequence of the input, and lists its cells in the
\* order of their first occurrences in the input; [(0,0),(1,0),(0,0),(0,1)]
\* yields [(0,0),(0,1)].
C9_Original ==
  Len(cutRes) >= 1 =>
    LET out == cutRes[1]
    IN /\ out = KeepFirstSkipToLast(cutArg)
       /\ NoDuplicates(out)
       /\ IsSubsequence(out, cutArg)
       /\ \A i, j \in 1 .. Len(out) :
            i < j => FirstIndex(cutArg, out[i]) < FirstIndex(cutArg, out[j])
       /\ (cutArg = <<<<0, 0>>, <<1, 0>>, <<0, 0>>, <<0, 1>>>> =>
             out = <<<<0, 0>>, <<0, 1>>>>)

\* C9 as amended: the result is the keep-first-skip-to-last list, holds no
\* cell twice and is a subsequence of the input (its cells come in the
\* order of the occurrences kept, which are the last ones);
\* [(0,0),(1,0),(0,0),(0,1)] yields [(0,0),(0,1)].
C9_CutKeepsFirstSkipsToLast ==
  Len(cutRes) >= 1 =>
    LET out == cutRes[1]
    IN /\ out = KeepFirstSkipToLast(cutArg)
       /\ NoDuplicates(out)
       /\ IsSubsequence(out, cutArg)
       /\ \A i, j \in 1 .. Len(out) :
            i < j => LastIndex(cutArg, out[i]) < LastIndex(cutArg, out[j])
       /\ (cutArg = <<<<0, 0>>, <<1, 0>>, <<0, 0>>, <<0, 1>>>> =>
             out = <<<<0, 0>>, <<0, 1>>>>)

C9_Witness ==
  /\ cutArg = <<<<0, 0>>, <<1, 0>>, <<0, 0>>, <<0, 1>>>>
  /\ Len(cutRes) >= 1
  /\ cutRes[1] = <<<<0, 0>>, <<0, 1>>>>

\* C10: cut_redundant_steps applied to its own result returns that
\* result, and applied to a list without duplicates it returns the list.
C10_CutIdempotent ==
  /\ (Len(cutRes) = 2 => cutRes[2] = cutRes[1])
  /\ ((Len(cutRes) >= 1 /\ NoDuplicates(cutArg)) => cutRes[1] = cutArg)

C10_Witness ==
  /\ Len(cutRes) = 2
  /\ ~NoDuplicates(cutArg)
  /\ Len(cutRes[1]) >= 3
  /\ cutRes[2] = cutRes[1]

====
